---- MODULE Spec2Model ----
(***************************************************************************)
(* RustySpark: allocator-backed containers and custom allocators.          *)
(*                                                                         *)
(* Part 1  HandleMap  (container/src/handlemap.rs) over the intrusive      *)
(*         free list of spark_core                                         *)
(* Part 2  Linear / Stack / Double-ended stack / Pool allocators           *)
(*         (mem/src/allocators/*.rs), the pool over mem/src/freelist.rs    *)
(*                                                                         *)
(* Memory is modelled at the level the code works at: byte addresses,      *)
(* pointer-sized words that the free list threads through the blocks, and  *)
(* the page-rounded committed range behind every reservation.              *)
(***************************************************************************)
EXTENDS Integers, Sequences, FiniteSets, TLC

(***************************************************************************)
(* Bounds of the model.                                                    *)
(***************************************************************************)
\* max_size handed to HandleMap::new
MaxSize == 3
\* generations are capped (the u32 wrap-around is out of scope)
MaxGen == 2
\* items are 1..MaxItem; 0 is the zeroed, never written memory
MaxItem == 2
\* calls of insert, remove and clear in one run
MaxOps == 8
\* the number of values of a u32, scaled down to what TLC's integers
\* hold; every length and every arena of the model is far smaller than either
U32Range == 1048576

(***************************************************************************)
(* Program constants.                                                      *)
(***************************************************************************)
\* virtual_mem::get_page_size(), asserted to be 4096 by the repository's test
PageSize == 4096
\* size_of::<*mut u8>() on the 64-bit targets the crate builds for
PointerSize == 8
\* size_of::<HandleData>(): usize + u32 + u32
HandleDataSize == 16
\* address VirtualAlloc hands back for the sparse array (allocation granularity)
sparse_arr_mem == 65536
\* ptr::null_mut()
NULL == 0

VARIABLES
    debug_build,     \* cfg(debug_assertions)
    \* ---- HandleMap ----
    size,            \* u32
    dense_array,     \* dense index -> item
    handle_array,    \* sparse slot -> HandleData
    meta_array,      \* dense index -> dense_to_sparse_idx
    freelist,        \* FreeList.list: head address, NULL when empty
    status,          \* "ok", or how the process died
    \* bookkeeping of what the caller was told
    live,            \* <<handle, item>> returned by insert, not since removed or cleared
    removed,         \* handles for which remove returned a value
    cleared,         \* handles that had been issued when clear was called
    ops,             \* calls of insert, remove and clear made so far
    \* ---- allocators ----
    kind,            \* which allocator this run constructs
    args,            \* the arguments its constructor was called with
    storage,         \* the allocator's *Storage struct
    words,           \* pool: block address -> the pointer-sized word stored there
    headers,         \* linear, stack, double-ended: address -> AllocationHeader there
    alloc_status,    \* "ok", or how the process died
    \* bookkeeping of what the caller was told
    blocks,          \* blocks handed out by alloc and not given back, oldest first
    back_blocks,     \* the same for alloc_raw_back
    last,            \* the last call: the request and the pointer returned or given back
    alloc_ops,       \* calls made on the allocator so far
    \* ---- memory realms ----
    realm,           \* which MemoryRealm wraps the allocator: "none", "basic", "typed"
    realm_memory,    \* address -> byte, for the bytes written through the realm
    realm_blocks,    \* blocks handed out by the realm and not given back
    \* ---- Vector ----
    vector,          \* the fields of the Vector struct
    slots,           \* the element array: slots[i + 1] is what the memory of index i holds
    committed,       \* bytes of the reservation the OS has committed, from its base
    dropped,         \* the items the last call destructed, in order
    vec_status,      \* "ok", or how the process died
    vec_last,        \* the last call, its arguments and what it returned
    vec_ops,         \* calls made on the vector so far
    \* ---- RingBuffer ----
    ring,            \* the fields of the RingBuffer struct
    ring_status,     \* "ok", or how the process died
    ring_last,       \* the last call, its argument and what it returned
    ring_ops,        \* calls made on the ring buffer so far
    unread           \* the items written and not read, among the last `capacity' written

hmVars == <<size, dense_array, handle_array, meta_array, freelist, status,
            live, removed, cleared, ops>>

allocVars == <<kind, args, storage, words, headers, alloc_status, blocks, back_blocks,
               last, alloc_ops>>

realmVars == <<realm, realm_memory, realm_blocks>>

vecVars == <<vector, slots, committed, dropped, vec_status, vec_last, vec_ops>>

ringVars == <<ring, ring_status, ring_last, ring_ops, unread>>

containerVars == <<vecVars, ringVars>>

vars == <<debug_build, hmVars, allocVars, realmVars, containerVars>>

\* a run that constructs no Vector
NoVector ==
    /\ vector = <<>>
    /\ slots = <<>>
    /\ committed = 0
    /\ dropped = <<>>
    /\ vec_status = "ok"
    /\ vec_last = <<>>
    /\ vec_ops = 0

\* a run that constructs no RingBuffer
NoRingBuffer ==
    /\ ring = <<>>
    /\ ring_status = "ok"
    /\ ring_last = <<>>
    /\ ring_ops = 0
    /\ unread = <<>>

\* a run that wraps no allocator in a realm
NoRealm ==
    /\ realm = "none"
    /\ realm_memory = <<>>
    /\ realm_blocks = <<>>

\* a run that exercises the HandleMap constructs no allocator, and the other way round
NoAllocator ==
    /\ kind = "none"
    /\ args = <<>>
    /\ storage = <<>>
    /\ words = <<>>
    /\ headers = <<>>
    /\ alloc_status = "ok"
    /\ blocks = <<>>
    /\ back_blocks = <<>>
    /\ last = [op |-> "none", size |-> 0, alignment |-> 1, offset |-> 0, ptr |-> NULL]
    /\ alloc_ops = 0

NoHandleMap ==
    /\ size = 0
    /\ dense_array = <<>>
    /\ handle_array = <<>>
    /\ meta_array = <<>>
    /\ freelist = NULL
    /\ status = "ok"
    /\ live = {}
    /\ removed = {}
    /\ cleared = {}
    /\ ops = 0

(***************************************************************************)
(* spark_core::math_util                                                   *)
(***************************************************************************)
round_to_next_multiple(num, multiple) ==
    LET remainer == num % multiple
        multiplicator == IF remainer = 0 THEN 0 ELSE 1
    IN  num - remainer + multiple * multiplicator

(***************************************************************************)
(* mem::freelist::FreeList.  The list lives in the memory it manages: the first           *)
(* pointer-sized word of a free block holds the address of the next one.   *)
(* `m' is that memory, a function from the block addresses the model       *)
(* tracks to the word stored there; [lo, hi) is the committed range.  A    *)
(* word outside the committed range cannot be read or written.             *)
(***************************************************************************)
Accessible(m, lo, hi, a) == a \in DOMAIN m /\ lo <= a /\ a + PointerSize <= hi

\* the loop of new_from: `left' iterations remain
RECURSIVE new_from_loop(_, _, _, _, _, _, _)
new_from_loop(m, lo, hi, current, memory, left, block_size) ==
    IF left = 0 THEN [mem |-> m, fault |-> FALSE]
    ELSE IF ~Accessible(m, lo, hi, current) THEN [mem |-> m, fault |-> TRUE]
    ELSE new_from_loop([m EXCEPT ![current] = memory + block_size], lo, hi,
                       memory + block_size, memory + block_size,
                       left - 1, block_size)

\* FreeList::new_from(begin, end, block_size)
new_from(m, lo, hi, begin, end, block_size) ==
    LET mem_range_in_bytes == end - begin
        number_of_blocks == mem_range_in_bytes \div block_size
        r == new_from_loop(m, lo, hi, begin, begin + block_size,
                           number_of_blocks, block_size)
    IN  [mem |-> r.mem, list |-> begin, fault |-> r.fault]

\* get_block that drops the block behind the head from the list (a faulty variant)
get_block_twice(m, lo, hi, list) ==
    IF list = NULL THEN [block |-> NULL, list |-> NULL, fault |-> FALSE]
    ELSE IF ~Accessible(m, lo, hi, list) THEN [block |-> list, list |-> list, fault |-> TRUE]
    ELSE [block |-> list,
          list |-> IF Accessible(m, lo, hi, m[list]) THEN m[m[list]] ELSE NULL,
          fault |-> FALSE]

\* get_block that hands out the head and leaves it on the list (a faulty variant)
get_block_stuck(m, lo, hi, list) ==
    [block |-> list, list |-> list, fault |-> FALSE]

\* FreeList::get_block: the head, and the list advanced to the word stored in it
get_block(m, lo, hi, list) ==
    IF list = NULL THEN [block |-> NULL, list |-> NULL, fault |-> FALSE]
    ELSE IF ~Accessible(m, lo, hi, list) THEN [block |-> list, list |-> list, fault |-> TRUE]
    ELSE [block |-> list, list |-> m[list], fault |-> FALSE]

\* FreeList::return_block
return_block(m, lo, hi, list, block) ==
    IF ~Accessible(m, lo, hi, block) THEN [mem |-> m, list |-> list, fault |-> TRUE]
    ELSE [mem |-> [m EXCEPT ![block] = list], list |-> block, fault |-> FALSE]

(***************************************************************************)
(* spark_core::freelist::FreeList, the free list the HandleMap imports.    *)
(* Its source is not part of the repository snapshot (mem::freelist has no *)
(* `empty'); it is modelled from the specification's section 4.2: new_from *)
(* threads the floor((end - begin) / block_size) blocks begin + k *        *)
(* block_size into a list, pop returns the head and advances to the word   *)
(* stored in it, push stores the head in the block's first word.           *)
(***************************************************************************)
RECURSIVE core_new_from_loop(_, _, _, _, _, _)
core_new_from_loop(m, lo, hi, current, left, block_size) ==
    IF left = 0 THEN [mem |-> m, fault |-> FALSE]
    ELSE IF ~Accessible(m, lo, hi, current) THEN [mem |-> m, fault |-> TRUE]
    ELSE core_new_from_loop(
             [m EXCEPT ![current] = IF left = 1 THEN NULL ELSE current + block_size],
             lo, hi, current + block_size, left - 1, block_size)

core_new_from(m, lo, hi, begin, end, block_size) ==
    LET number_of_blocks == (end - begin) \div block_size
        r == core_new_from_loop(m, lo, hi, begin, number_of_blocks, block_size)
    IN  [mem |-> r.mem,
         list |-> IF number_of_blocks = 0 THEN NULL ELSE begin,
         fault |-> r.fault]

core_get_block(m, lo, hi, list) ==
    IF list = NULL THEN [block |-> NULL, list |-> NULL, fault |-> FALSE]
    ELSE IF ~Accessible(m, lo, hi, list) THEN [block |-> list, list |-> list, fault |-> TRUE]
    ELSE [block |-> list, list |-> m[list], fault |-> FALSE]

core_return_block(m, lo, hi, list, block) ==
    IF ~Accessible(m, lo, hi, block) THEN [mem |-> m, list |-> list, fault |-> TRUE]
    ELSE [mem |-> [m EXCEPT ![block] = list], list |-> block, fault |-> FALSE]

empty(list) == list = NULL

(***************************************************************************)
(* HandleMap                                                               *)
(***************************************************************************)
\* what `self.size - 1' wraps to in a release build when size is 0
u32_MAX == U32Range - 1

\* the sparse slots
Slots == 0 .. (MaxSize - 1)
SlotAddr(k) == sparse_arr_mem + k * HandleDataSize
SlotAddrs == {SlotAddr(k) : k \in Slots}
SlotOf(a) == (a - sparse_arr_mem) \div HandleDataSize

\* allocate_mem commits the size rounded to whole pages
committed_lo == sparse_arr_mem
committed_hi == sparse_arr_mem + round_to_next_multiple(MaxSize * HandleDataSize, PageSize)

\* the first word of every HandleData is its dense_array_idx: the free list's
\* next pointer and the dense index share those bytes
Words(ha) == [a \in SlotAddrs |-> ha[SlotOf(a)].dense_array_idx]
WithWords(ha, m) == [k \in Slots |-> [ha[k] EXCEPT !.dense_array_idx = m[SlotAddr(k)]]]

Handles == (0 .. MaxSize) \X (0 .. MaxGen)
Items == 1 .. MaxItem
NoHandle == <<-1, -1>>
None == -1

\* the map's own fields, as one value
Map == [size |-> size, dense_array |-> dense_array, handle_array |-> handle_array,
        meta_array |-> meta_array, freelist |-> freelist, status |-> status]

\* HandleMap::new
new ==
    LET zeroed == [k \in Slots |-> [dense_array_idx |-> 0, sparse_array_idx |-> 0, generation |-> 0]]
        init   == [k \in Slots |-> [zeroed[k] EXCEPT !.sparse_array_idx = k, !.generation = 0]]
        fl     == core_new_from(Words(init), committed_lo, committed_hi,
                           SlotAddr(0), SlotAddr(0) + MaxSize * HandleDataSize, HandleDataSize)
    IN  [size |-> 0,
         dense_array |-> [i \in 0 .. (MaxSize - 1) |-> 0],
         handle_array |-> WithWords(init, fl.mem),
         meta_array |-> [i \in 0 .. (MaxSize - 1) |-> 0],
         freelist |-> fl.list,
         status |-> IF fl.fault THEN "segv" ELSE "ok"]

\* HandleMap::insert; h is the handle returned, NoHandle for none
insert(item) ==
    LET enough_capacity_for_element == size < MaxSize
    IN
    IF debug_build /\ ~enough_capacity_for_element
    THEN [map |-> [Map EXCEPT !.status = "assert"], h |-> NoHandle]
    ELSE IF empty(freelist)
    THEN [map |-> Map, h |-> NoHandle]
    ELSE
      LET g == core_get_block(Words(handle_array), committed_lo, committed_hi, freelist)
      IN
      IF g.fault
      THEN [map |-> [Map EXCEPT !.status = "segv"], h |-> NoHandle]
      ELSE
        LET k    == SlotOf(g.block)
            ha   == [handle_array EXCEPT ![k].dense_array_idx = size]
            internal_id == <<ha[k].sparse_array_idx, ha[k].generation>>
        IN
        IF ~(size < MaxSize)
        THEN \* meta_array[size]: index out of bounds
             [map |-> [Map EXCEPT !.handle_array = ha, !.freelist = g.list, !.status = "panic"],
              h |-> NoHandle]
        ELSE [map |-> [Map EXCEPT !.handle_array = ha,
                                  !.freelist = g.list,
                                  !.meta_array = [meta_array EXCEPT ![size] = internal_id[1]],
                                  !.dense_array = [dense_array EXCEPT ![size] = item],
                                  !.size = size + 1],
              h |-> internal_id]

\* a remove or clear that leaves the generation as it was (a faulty variant)
bump_forgotten(generation) == generation

\* the generation written back by remove and by clear
bump(generation) == generation + 1

\* HandleMap::remove; val is the item returned, None for none
remove(h) ==
    LET handle_index_in_range == h[1] < size
    IN
    IF debug_build /\ ~handle_index_in_range
    THEN [map |-> [Map EXCEPT !.status = "assert"], val |-> None]
    ELSE IF ~(h[1] < MaxSize)
    THEN [map |-> [Map EXCEPT !.status = "panic"], val |-> None]
    ELSE
      LET dense_array_idx == handle_array[h[1]].dense_array_idx
          generation == handle_array[h[1]].generation
          is_generation_valid == h[2] = generation
          last_item_idx == IF size = 0 THEN u32_MAX ELSE size - 1
      IN
      IF ~is_generation_valid
      THEN [map |-> Map, val |-> None]
      ELSE IF ~(dense_array_idx < MaxSize) \/ ~(last_item_idx < MaxSize)
      THEN \* dense_array[dense_array_idx] or swap(.., last_item_idx) out of bounds
           [map |-> [Map EXCEPT !.status = "panic"], val |-> None]
      ELSE
        LET removed_item == dense_array[dense_array_idx]
            swapped == [dense_array EXCEPT ![dense_array_idx] = dense_array[last_item_idx],
                                           ![last_item_idx] = dense_array[dense_array_idx]]
            moved_item_idx == meta_array[last_item_idx]
            ha1 == [handle_array EXCEPT ![moved_item_idx].dense_array_idx = dense_array_idx]
            rb  == core_return_block(Words(ha1), committed_lo, committed_hi, freelist, SlotAddr(h[1]))
            ha2 == WithWords(ha1, rb.mem)
            ha3 == [ha2 EXCEPT ![h[1]].generation = bump(ha2[h[1]].generation)]
        IN  [map |-> [Map EXCEPT !.dense_array = swapped,
                                 !.handle_array = ha3,
                                 !.freelist = rb.list,
                                 !.size = last_item_idx,
                                 !.status = IF rb.fault THEN "segv" ELSE "ok"],
             val |-> removed_item]

\* HandleMap::clear
clear ==
    LET ha1 == [k \in Slots |-> IF k < size
                                THEN [handle_array[k] EXCEPT !.generation = bump(handle_array[k].generation)]
                                ELSE handle_array[k]]
    IN
    IF size = 0
    THEN \* `self.size as usize - 1': overflow panic (debug), index out of bounds (release)
         [Map EXCEPT !.status = "panic"]
    ELSE
      LET fl == core_new_from(Words(ha1), committed_lo, committed_hi,
                              SlotAddr(0), SlotAddr(size - 1), HandleDataSize)
      IN  [Map EXCEPT !.handle_array = WithWords(ha1, fl.mem),
                      !.freelist = fl.list,
                      !.status = IF fl.fault THEN "segv" ELSE "ok"]

\* HandleMap::at (at_mut reads the same way); val is the item referred to
at(h) ==
    LET handle_index_in_range == h[1] < size
    IN
    IF debug_build /\ ~handle_index_in_range
    THEN [status |-> "assert", val |-> None]
    ELSE IF ~(h[1] < MaxSize)
    THEN [status |-> "panic", val |-> None]
    ELSE
      LET handle_data == handle_array[h[1]]
          valid_generation == h[2] = handle_data.generation
      IN
      IF debug_build /\ ~valid_generation
      THEN [status |-> "assert", val |-> None]
      ELSE IF ~(handle_data.dense_array_idx < MaxSize)
      THEN [status |-> "panic", val |-> None]
      ELSE [status |-> "ok", val |-> dense_array[handle_data.dense_array_idx]]

\* HandleMap::is_valid
is_valid(h) ==
    IF h[1] >= size
    THEN FALSE
    ELSE
      LET handle_data == handle_array[h[1]]
          generation_valid == handle_data.generation = h[2]
          item_idx_valid == handle_data.dense_array_idx < size
      IN  generation_valid /\ item_idx_valid

(***************************************************************************)
(* The map under an arbitrary caller, who passes the handles insert gave   *)
(* it (live or stale).  A dead process takes no more steps.                *)
(***************************************************************************)
\* every handle insert has returned so far: it is live, or it went stale through
\* a remove that returned its item or through a clear
issued == {e[1] : e \in live} \cup removed \cup cleared

SetMap(m) ==
    /\ size' = m.size
    /\ dense_array' = m.dense_array
    /\ handle_array' = m.handle_array
    /\ meta_array' = m.meta_array
    /\ freelist' = m.freelist
    /\ status' = m.status

HMInit ==
    /\ debug_build \in BOOLEAN
    /\ size = new.size
    /\ dense_array = new.dense_array
    /\ handle_array = new.handle_array
    /\ meta_array = new.meta_array
    /\ freelist = new.freelist
    /\ status = new.status
    /\ live = {}
    /\ removed = {}
    /\ cleared = {}
    /\ ops = 0
    /\ NoAllocator
    /\ NoRealm
    /\ NoVector
    /\ NoRingBuffer

Insert(item) ==
    /\ status = "ok"
    /\ ops < MaxOps
    /\ ops' = ops + 1
    /\ LET r == insert(item)
       IN  /\ SetMap(r.map)
           /\ live' = IF r.h = NoHandle THEN live ELSE live \cup {<<r.h, item>>}
    /\ UNCHANGED <<debug_build, removed, cleared, allocVars, realmVars, containerVars>>

Remove(h) ==
    /\ status = "ok"
    /\ ops < MaxOps
    /\ ops' = ops + 1
    /\ h[1] < MaxSize => handle_array[h[1]].generation < MaxGen
    /\ LET r == remove(h)
       IN  /\ SetMap(r.map)
           /\ live' = IF r.val = None THEN live ELSE {e \in live : e[1] # h}
           /\ removed' = IF r.val = None THEN removed ELSE removed \cup {h}
    /\ UNCHANGED <<debug_build, cleared, allocVars, realmVars, containerVars>>

Clear ==
    /\ status = "ok"
    /\ ops < MaxOps
    /\ ops' = ops + 1
    /\ \A k \in 0 .. (MaxSize - 1) : handle_array[k].generation < MaxGen
    /\ SetMap(clear)
    /\ live' = {}
    /\ cleared' = cleared \cup issued
    /\ UNCHANGED <<debug_build, removed, allocVars, realmVars, containerVars>>

At(h) ==
    /\ status = "ok"
    /\ status' = at(h).status
    /\ UNCHANGED <<size, dense_array, handle_array, meta_array, freelist,
                   debug_build, live, removed, cleared, ops, allocVars, realmVars, containerVars>>

IsValid(h) ==
    /\ status = "ok"
    /\ UNCHANGED <<size, dense_array, handle_array, meta_array, freelist, status,
                   debug_build, live, removed, cleared, ops, allocVars, realmVars, containerVars>>

HMNext ==
    \/ \E item \in Items : Insert(item)
    \/ \E h \in issued : Remove(h)
    \/ Clear
    \/ \E h \in issued : At(h)
    \/ \E h \in issued : IsValid(h)

SpecHandleMap == HMInit /\ [][HMNext]_vars

(***************************************************************************)
(* Properties of the HandleMap                                             *)
(***************************************************************************)
\* the blocks the free list holds, in pop order: the chain from the head, as far
\* as it can be followed (at most n links)
RECURSIVE Chain(_, _, _)
Chain(m, p, n) ==
    IF p = NULL \/ n = 0 \/ p \notin DOMAIN m THEN <<>>
    ELSE <<p>> \o Chain(m, m[p], n - 1)

FreeChain == Chain(Words(handle_array), freelist, MaxSize + 3)
FreeSlots == {SlotOf(FreeChain[j]) : j \in 1 .. Len(FreeChain)}
LiveSlots == {meta_array[i] : i \in 0 .. (size - 1)}
MapUnchanged ==
    UNCHANGED <<size, dense_array, handle_array, meta_array, freelist, status>>

\* C1: HandleMap bijection: in every state the map is alive in, for every dense
\* index i < size the sparse record named by dense_to_sparse[i] has dense_idx = i.
C1_Bijection ==
    status = "ok" =>
        \A i \in 0 .. (size - 1) : handle_array[meta_array[i]].dense_array_idx = i

\* C2: handle stability: for every handle returned by insert and not since removed
\* or cleared, at(h) completes without assertion and returns the item inserted
\* under h.
C2_HandleStability ==
    status = "ok" =>
        \A e \in live : at(e[1]) = [status |-> "ok", val |-> e[2]]

\* C3: generation strictness: once remove(h) has returned a value, is_valid(h) is
\* false in every later state, whatever inserts, removes and clears follow.
C3_GenerationStrictness ==
    \A h \in removed : ~is_valid(h)

\* a removed handle whose slot has since been handed out again, under another
\* generation
C3_Witness ==
    /\ status = "ok"
    /\ \E h \in removed : \E e \in live :
          /\ e[1][1] = h[1]
          /\ e[1][2] # h[2]
          /\ handle_array[h[1]].dense_array_idx < size
          /\ h[1] < size

\* C4: is_valid(h) is true exactly when h.sparse_idx < max_size, the slot's
\* generation equals h.generation and the slot's dense_idx < size; so every handle
\* returned by insert and not yet removed or cleared is reported valid.
C4_IsValidSpec ==
    status = "ok" =>
        /\ \A h \in issued :
              is_valid(h) = ( /\ h[1] < MaxSize
                              /\ handle_array[h[1]].generation = h[2]
                              /\ handle_array[h[1]].dense_array_idx < size )
        /\ \A e \in live : is_valid(e[1])

\* C5: remove(h) of a live handle returns the item inserted under h, decreases
\* size by one and returns the slot to the free list; the items reachable through
\* the other live handles are unchanged.
C5_RemoveLive ==
    [][ \A e \in live :
          Remove(e[1]) =>
            /\ remove(e[1]).val = e[2]
            /\ status' = "ok"
            /\ size' = size - 1
            /\ freelist' = SlotAddr(e[1][1])
            /\ \A f \in live : f[1] # e[1] => at(f[1])' = [status |-> "ok", val |-> f[2]]
      ]_vars

\* C6: slot partition: each of the max_size sparse slots is either live (named by
\* exactly one dense_to_sparse[i], i < size) or on the free list, never both and
\* never neither; the free list holds exactly max_size - size slots, all of them
\* inside sparse[0..max_size).
C6_SlotPartition ==
    status = "ok" =>
        /\ \A k \in 0 .. (MaxSize - 1) : (k \in LiveSlots) # (k \in FreeSlots)
        /\ \A i, j \in 0 .. (size - 1) : meta_array[i] = meta_array[j] => i = j
        /\ Len(FreeChain) = MaxSize - size
        /\ Cardinality(FreeSlots) = MaxSize - size
        /\ FreeSlots \subseteq 0 .. (MaxSize - 1)

\* C7: capacity: from a new map the first max_size inserts each return a handle,
\* pairwise distinct, size reaching max_size; an insert on a full map (one that
\* holds max_size live items) returns none in a release build and leaves size,
\* dense, sparse and the free list unchanged.
C7_Capacity ==
    [][ \A item \in Items :
          Insert(item) =>
            /\ (removed = {} /\ cleared = {} /\ size < MaxSize) =>
                  /\ insert(item).h # NoHandle
                  /\ insert(item).h \notin issued
                  /\ size' = size + 1
            /\ (~debug_build /\ size = MaxSize /\ Cardinality({e[1] : e \in live}) = MaxSize) =>
                  /\ insert(item).h = NoHandle
                  /\ MapUnchanged
      ]_vars

\* C8: remove(h) with a stale handle (sparse_idx in range, slot generation
\* different from h.generation) returns none, is not fatal, and leaves the whole
\* map unchanged.
C8_RemoveStale ==
    [][ \A h \in issued :
          ( /\ h[1] < MaxSize
            /\ handle_array[h[1]].generation # h[2]
            /\ Remove(h) ) =>
            /\ remove(h).val = None
            /\ MapUnchanged
      ]_vars

\* C9: after clear(), is_valid(h) is false for every handle issued before the
\* clear, and stays false whatever inserts follow.
C9_ClearInvalidates ==
    \A h \in cleared : ~is_valid(h)

(***************************************************************************)
(* Part 2: the allocators                                                  *)
(***************************************************************************)
\* size handed to the constructors of the linear, stack and double-ended allocators
ArenaSize == 64
\* calls made on one allocator in one run
MaxAllocOps == 5

\* the address VirtualAlloc hands back (allocation granularity: page aligned)
physical_address_space == 65536
\* size_of::<AllocationHeader>() of each allocator; the allocation_id field of the
\* stack headers is compiled out (cfg stack_alloc_lifo_check is not set)
linear_ALLOCATION_META_SIZE == 4
stack_ALLOCATION_META_SIZE == 8
de_ALLOCATION_META_SIZE == 8
pool_ALLOCATION_META_SIZE == 4

\* the requests the callers make: <<size, alignment, offset>>
Requests == {<<8, 1, 0>>, <<8, 4, 4>>, <<8, 16, 0>>, <<24, 4, 0>>, <<24, 16, 4>>, <<2, 1, 4>>}
\* <<max_element_size, element_count, max_element_alignment, offset>>
PoolConfigs == {<<12, 3, 16, 0>>, <<12, 2, 8, 4>>, <<16, 2, 16, 0>>, <<1020, 3, 8, 0>>,
                <<6, 2, 8, 0>>}

(***************************************************************************)
(* pointer_util and virtual_mem                                            *)
(***************************************************************************)
RECURSIVE is_pot(_)
is_pot(num) ==
    IF num = 0 THEN FALSE
    ELSE IF num = 1 THEN TRUE
    ELSE num % 2 = 0 /\ is_pot(num \div 2)

\* (address + alignment - 1) & !(alignment - 1), for a power of two
align_top(address, alignment) == ((address + alignment - 1) \div alignment) * alignment

\* address & !(alignment - 1), for a power of two
align_bottom(address, alignment) == address - (address % alignment)

\* `x as u32'
as_u32(x) == x % U32Range

\* VirtualAlloc(MEM_COMMIT) commits every page the range touches
committed_end(begin, mem_size) == begin + round_to_next_multiple(mem_size, PageSize)

(***************************************************************************)
(* Header memory.  `headers' holds the AllocationHeader stored at an        *)
(* address; a header costs `meta' bytes.  Writing a block [addr, end) (its    *)
(* header and the payload its owner fills) destroys every header those      *)
(* bytes overlap.  The bytes of blocks given back are dead: their headers   *)
(* are dropped.                                                            *)
(***************************************************************************)
write_header(h, addr, meta, end, hdr) ==
    LET keep == {a \in DOMAIN h : a + meta <= addr \/ a >= end}
    IN  [a \in keep \cup {addr} |-> IF a = addr THEN hdr ELSE h[a]]

drop_header(h, addr) == [a \in DOMAIN h \ {addr} |-> h[a]]

\* what an operation hands back to the action that called it
Outcome(st, w, h, s, p) ==
    [storage |-> st, words |-> w, headers |-> h, status |-> s, ptr |-> p]


(***************************************************************************)
(* LinearAllocator                                                         *)
(***************************************************************************)
\* LinearAllocatorStorage::new
linear_new(mem_size) ==
    [mem_begin |-> physical_address_space,
     mem_end |-> physical_address_space + mem_size,
     current_ptr |-> physical_address_space]

\* LinearAllocator::alloc_raw
linear_alloc_raw(sz, alignment, offset) ==
    LET offset_before_alignment == offset + linear_ALLOCATION_META_SIZE
        aligned == align_top(storage.current_ptr + offset_before_alignment, alignment)
        allocation_overflows == aligned + sz > storage.mem_end
        header_ptr == aligned - offset_before_alignment
        user_ptr == header_ptr + linear_ALLOCATION_META_SIZE
    IN
    IF debug_build /\ ~is_pot(alignment)
    THEN Outcome(storage, words, headers, "assert", NULL)
    ELSE IF allocation_overflows
    THEN Outcome([storage EXCEPT !.current_ptr = aligned], words, headers, "ok", NULL)
    ELSE Outcome([storage EXCEPT !.current_ptr = header_ptr + sz + linear_ALLOCATION_META_SIZE],
                 words,
                 write_header(headers, header_ptr, linear_ALLOCATION_META_SIZE, user_ptr + sz,
                              [allocation_size |-> as_u32(sz)]),
                 "ok", user_ptr)

\* dealloc_raw that rewinds the cursor to the block given back (a faulty variant)
linear_dealloc_raw_rewinding(ptr) ==
    Outcome([storage EXCEPT !.current_ptr = ptr - linear_ALLOCATION_META_SIZE], words,
            drop_header(headers, ptr - linear_ALLOCATION_META_SIZE), "ok", NULL)

\* LinearAllocator::dealloc_raw: a no-op
linear_dealloc_raw(ptr) ==
    Outcome(storage, words, drop_header(headers, ptr - linear_ALLOCATION_META_SIZE), "ok", NULL)

\* LinearAllocator::reset
linear_reset ==
    Outcome([storage EXCEPT !.current_ptr = storage.mem_begin], words, <<>>, "ok", NULL)

(***************************************************************************)
(* StackAllocator                                                          *)
(***************************************************************************)
\* StackAllocatorStorage::new
stack_new(mem_size) ==
    [mem_begin |-> physical_address_space,
     mem_end |-> physical_address_space + mem_size,
     current_ptr |-> physical_address_space]

\* StackAllocator::alloc
stack_alloc(sz, alignment, offset) ==
    LET current_ptr_offset == storage.current_ptr - storage.mem_begin
        offset_before_alignment == offset + stack_ALLOCATION_META_SIZE
        aligned == align_top(storage.current_ptr + offset_before_alignment, alignment)
        allocation_overflows == aligned + sz > storage.mem_end
        header_ptr == aligned - offset_before_alignment
        user_ptr == header_ptr + stack_ALLOCATION_META_SIZE
    IN
    IF debug_build /\ ~is_pot(alignment)
    THEN Outcome(storage, words, headers, "assert", NULL)
    ELSE IF allocation_overflows
    THEN Outcome([storage EXCEPT !.current_ptr = aligned], words, headers, "ok", NULL)
    ELSE Outcome([storage EXCEPT !.current_ptr = header_ptr + sz + stack_ALLOCATION_META_SIZE],
                 words,
                 write_header(headers, header_ptr, stack_ALLOCATION_META_SIZE, user_ptr + sz,
                              [allocation_offset |-> as_u32(current_ptr_offset),
                               allocation_size |-> as_u32(sz)]),
                 "ok", user_ptr)

\* dealloc that rewinds the cursor to the block's header and so keeps the
\* alignment padding in front of it allocated (a faulty variant)
stack_dealloc_to_header(ptr) ==
    Outcome([storage EXCEPT !.current_ptr = ptr - stack_ALLOCATION_META_SIZE], words,
            drop_header(headers, ptr - stack_ALLOCATION_META_SIZE), "ok", NULL)

\* StackAllocator::dealloc
stack_dealloc(ptr) ==
    LET header_ptr == ptr - stack_ALLOCATION_META_SIZE
    IN
    IF header_ptr \notin DOMAIN headers
    THEN \* the header was overwritten: the cursor is set from garbage
         Outcome(storage, words, headers, "garbage", NULL)
    ELSE Outcome([storage EXCEPT !.current_ptr = storage.mem_begin + headers[header_ptr].allocation_offset],
                 words, drop_header(headers, header_ptr), "ok", NULL)

\* StackAllocator::reset
stack_reset ==
    Outcome([storage EXCEPT !.current_ptr = storage.mem_begin], words, <<>>, "ok", NULL)


(***************************************************************************)
(* DoubleEndedStackAllocator                                               *)
(***************************************************************************)
\* DoubleEndedStackAllocatorStorage::new
de_new(mem_size) ==
    [mem_begin |-> physical_address_space,
     mem_end |-> physical_address_space + mem_size,
     current_front_ptr |-> physical_address_space,
     current_end_ptr |-> physical_address_space + mem_size]

\* DoubleEndedStackAllocator::alloc_raw (front)
de_alloc_raw(sz, alignment, offset) ==
    LET current_ptr_offset == storage.current_front_ptr - storage.mem_begin
        offset_before_alignment == offset + de_ALLOCATION_META_SIZE
        aligned == align_top(storage.current_front_ptr + offset_before_alignment, alignment)
        \* `size - offset' wraps in a release build and is cast to isize
        allocation_overflows_end_block == aligned + (sz - offset) > storage.current_end_ptr
        header_ptr == aligned - offset_before_alignment
        user_ptr == header_ptr + de_ALLOCATION_META_SIZE
    IN
    IF debug_build /\ ~is_pot(alignment)
    THEN Outcome(storage, words, headers, "assert", NULL)
    ELSE IF debug_build /\ sz < offset
    THEN \* `size - offset': attempt to subtract with overflow
         Outcome([storage EXCEPT !.current_front_ptr = aligned], words, headers, "panic", NULL)
    ELSE IF allocation_overflows_end_block
    THEN Outcome([storage EXCEPT !.current_front_ptr = aligned], words, headers, "ok", NULL)
    ELSE Outcome([storage EXCEPT !.current_front_ptr = header_ptr + sz + de_ALLOCATION_META_SIZE],
                 words,
                 write_header(headers, header_ptr, de_ALLOCATION_META_SIZE, user_ptr + sz,
                              [allocation_offset |-> as_u32(current_ptr_offset),
                               allocation_size |-> as_u32(sz)]),
                 "ok", user_ptr)

\* DoubleEndedStackAllocator::alloc_raw_back
de_alloc_raw_back(sz, alignment, offset) ==
    LET current_ptr_offset == storage.current_end_ptr - storage.mem_end
        offset_before_alignment == offset + de_ALLOCATION_META_SIZE
        aligned == align_bottom(storage.current_end_ptr - sz, alignment)
        allocation_overflows_front_block ==
            aligned - offset_before_alignment < storage.current_front_ptr
        header_ptr == aligned - offset_before_alignment
        user_ptr == header_ptr + de_ALLOCATION_META_SIZE
    IN
    IF debug_build /\ ~is_pot(alignment)
    THEN Outcome(storage, words, headers, "assert", NULL)
    ELSE IF allocation_overflows_front_block
    THEN Outcome([storage EXCEPT !.current_end_ptr = aligned], words, headers, "ok", NULL)
    ELSE Outcome([storage EXCEPT !.current_end_ptr = header_ptr - de_ALLOCATION_META_SIZE],
                 words,
                 write_header(headers, header_ptr, de_ALLOCATION_META_SIZE, user_ptr + sz,
                              [allocation_offset |-> as_u32(current_ptr_offset),
                               allocation_size |-> as_u32(sz)]),
                 "ok", user_ptr)

\* DoubleEndedStackAllocator::dealloc_raw (front)
de_dealloc_raw(raw_mem) ==
    LET header_ptr == raw_mem - de_ALLOCATION_META_SIZE
        ptr_in_range == raw_mem >= storage.mem_begin /\ raw_mem < storage.mem_end
        ptr_in_front_block == raw_mem < storage.current_end_ptr
    IN
    IF debug_build /\ ~(ptr_in_range /\ ptr_in_front_block)
    THEN Outcome(storage, words, headers, "assert", NULL)
    ELSE IF header_ptr \notin DOMAIN headers
    THEN Outcome(storage, words, headers, "garbage", NULL)
    ELSE Outcome([storage EXCEPT !.current_front_ptr =
                                     storage.mem_begin + headers[header_ptr].allocation_offset],
                 words, drop_header(headers, header_ptr), "ok", NULL)

\* DoubleEndedStackAllocator::dealloc_raw_back
de_dealloc_raw_back(raw_mem) ==
    LET header_ptr == raw_mem - de_ALLOCATION_META_SIZE
        ptr_in_range == raw_mem >= storage.mem_begin /\ raw_mem < storage.mem_end
        ptr_in_back_block == raw_mem >= storage.current_end_ptr
    IN
    IF debug_build /\ ~(ptr_in_range /\ ptr_in_back_block)
    THEN Outcome(storage, words, headers, "assert", NULL)
    ELSE IF header_ptr \notin DOMAIN headers
    THEN Outcome(storage, words, headers, "garbage", NULL)
    ELSE Outcome([storage EXCEPT !.current_end_ptr =
                                     storage.mem_end - headers[header_ptr].allocation_offset],
                 words, drop_header(headers, header_ptr), "ok", NULL)

\* reset that forgets the back cursor (a faulty variant)
de_reset_front_only ==
    Outcome([storage EXCEPT !.current_front_ptr = storage.mem_begin], words, <<>>, "ok", NULL)

\* DoubleEndedStackAllocator::reset
de_reset ==
    Outcome([storage EXCEPT !.current_front_ptr = storage.mem_begin,
                            !.current_end_ptr = storage.mem_end],
            words, <<>>, "ok", NULL)

(***************************************************************************)
(* PoolAllocator                                                           *)
(***************************************************************************)
\* pool_allocator::round_to_next_multiple: `!!(remainer)' is the remainder itself
pool_round_to_next_multiple(num, multiple) ==
    LET remainer == num % multiple
    IN  num - remainer + multiple * remainer

calculate_minimal_block_size(max_size, max_alignment) ==
    IF max_size < max_alignment
    THEN max_alignment
    ELSE pool_round_to_next_multiple(max_size, max_alignment)

\* the block addresses the free list of a pool can reach: new_from links
\* number_of_blocks + 1 blocks, the last of them number_of_blocks + 1 blocks in
pool_blocks(first_block_ptr, mem_end, min_block_size) ==
    {first_block_ptr + k * min_block_size :
        k \in 0 .. (((mem_end - first_block_ptr) \div min_block_size) + 1)}

\* PoolAllocator::new and PoolAllocatorStorage::new
pool_new(max_element_size, element_count, max_element_alignment, offset) ==
    LET block_min_size == calculate_minimal_block_size(
                              max_element_size + pool_ALLOCATION_META_SIZE, max_element_alignment)
        required_memory_size == (element_count * block_min_size) + max_element_alignment
        physical_address_space_end == physical_address_space + required_memory_size
        allocation_meta_offset == offset + pool_ALLOCATION_META_SIZE
        aligned_ptr == align_top(physical_address_space + allocation_meta_offset,
                                 max_element_alignment)
        first_block_ptr == aligned_ptr - allocation_meta_offset
        fresh == [a \in pool_blocks(first_block_ptr, physical_address_space_end, block_min_size)
                     |-> NULL]
        fl == new_from(fresh, physical_address_space,
                       committed_end(physical_address_space, required_memory_size),
                       first_block_ptr, physical_address_space_end, block_min_size)
    IN  [storage |-> [mem_begin |-> physical_address_space,
                      mem_end |-> physical_address_space_end,
                      first_block_ptr |-> first_block_ptr,
                      max_element_size |-> max_element_size,
                      max_element_alignment |-> max_element_alignment,
                      min_block_size |-> block_min_size,
                      free_list |-> fl.list],
         words |-> fl.mem,
         status |-> IF debug_build /\ block_min_size < PointerSize THEN "assert"
                    ELSE IF fl.fault THEN "segv" ELSE "ok"]

\* PoolAllocator::alloc; the header is written over the low half of the block's
\* first word, whose high half is zero for the addresses of the model
pool_alloc(sz, alignment, offset) ==
    LET g == get_block(words, storage.mem_begin,
                       committed_end(storage.mem_begin, storage.mem_end - storage.mem_begin),
                       storage.free_list)
    IN
    IF debug_build /\ ~(sz <= storage.max_element_size /\ alignment <= storage.max_element_alignment)
    THEN Outcome(storage, words, headers, "assert", NULL)
    ELSE IF g.fault
    THEN Outcome(storage, words, headers, "segv", NULL)
    ELSE IF g.block = NULL
    THEN Outcome(storage, words, headers, "ok", NULL)
    ELSE Outcome([storage EXCEPT !.free_list = g.list],
                 [words EXCEPT ![g.block] = as_u32(sz)],
                 headers, "ok", g.block + pool_ALLOCATION_META_SIZE)

\* PoolAllocator::dealloc
pool_dealloc(ptr) ==
    LET original_ptr == ptr - pool_ALLOCATION_META_SIZE
        rb == return_block(words, storage.mem_begin,
                           committed_end(storage.mem_begin, storage.mem_end - storage.mem_begin),
                           storage.free_list, original_ptr)
    IN  Outcome([storage EXCEPT !.free_list = rb.list], rb.mem, headers,
                IF rb.fault THEN "segv" ELSE "ok", NULL)

\* PoolAllocator::reset
pool_reset ==
    LET fl == new_from(words, storage.mem_begin,
                       committed_end(storage.mem_begin, storage.mem_end - storage.mem_begin),
                       storage.first_block_ptr, storage.mem_end, storage.min_block_size)
    IN  Outcome([storage EXCEPT !.free_list = fl.list], fl.mem, headers,
                IF fl.fault THEN "segv" ELSE "ok", NULL)


(***************************************************************************)
(* The allocators under an arbitrary caller.  The caller gives back only   *)
(* blocks it holds, through the side it got them from, and the stack-style *)
(* allocators get them back in LIFO order.  A dead process takes no more   *)
(* steps.                                                                  *)
(***************************************************************************)
Request(op, sz, alignment, offset, ptr) ==
    [op |-> op, size |-> sz, alignment |-> alignment, offset |-> offset, ptr |-> ptr]

NoRequest(op) == Request(op, 0, 1, 0, NULL)

Without(s, i) == SubSeq(s, 1, i - 1) \o SubSeq(s, i + 1, Len(s))

\* a block the caller holds: the pointer, the request that produced it, and the
\* cursor (for the pool: the head of the free list) the request found
Held(s, r, q, before) ==
    IF r.ptr = NULL THEN s
    ELSE Append(s, [ptr |-> r.ptr, size |-> q[1], alignment |-> q[2], offset |-> q[3],
                    before |-> before])

\* the block the caller gives back
GaveBack(op, b) == Request(op, b.size, b.alignment, b.offset, b.ptr)

\* the call is made: the allocator's state is what the operation left
Called(r) ==
    /\ alloc_status = "ok"
    /\ alloc_ops < MaxAllocOps
    /\ alloc_ops' = alloc_ops + 1
    /\ storage' = r.storage
    /\ words' = r.words
    /\ headers' = r.headers
    /\ alloc_status' = r.status
    /\ UNCHANGED <<debug_build, kind, args, hmVars, realmVars, containerVars>>

AllocInit ==
    /\ debug_build \in BOOLEAN
    /\ NoHandleMap
    /\ NoRealm
    /\ NoVector
    /\ NoRingBuffer
    /\ \/ /\ kind = "linear"
          /\ args = <<ArenaSize>>
          /\ storage = linear_new(ArenaSize)
          /\ words = <<>>
          /\ alloc_status = "ok"
       \/ /\ kind = "stack"
          /\ args = <<ArenaSize>>
          /\ storage = stack_new(ArenaSize)
          /\ words = <<>>
          /\ alloc_status = "ok"
       \/ /\ kind = "double_ended"
          /\ args = <<ArenaSize>>
          /\ storage = de_new(ArenaSize)
          /\ words = <<>>
          /\ alloc_status = "ok"
       \/ \E c \in PoolConfigs :
             LET p == pool_new(c[1], c[2], c[3], c[4])
             IN  /\ kind = "pool"
                 /\ args = c
                 /\ storage = p.storage
                 /\ words = p.words
                 /\ alloc_status = p.status
    /\ headers = <<>>
    /\ blocks = <<>>
    /\ back_blocks = <<>>
    /\ last = NoRequest("new")
    /\ alloc_ops = 0

LinearAllocRaw(sz, alignment, offset) ==
    /\ kind = "linear"
    /\ LET r == linear_alloc_raw(sz, alignment, offset)
       IN  /\ Called(r)
           /\ blocks' = Held(blocks, r, <<sz, alignment, offset>>, storage.current_ptr)
           /\ last' = Request("alloc_raw", sz, alignment, offset, r.ptr)
    /\ UNCHANGED back_blocks

LinearDeallocRaw(i) ==
    /\ kind = "linear"
    /\ Called(linear_dealloc_raw(blocks[i].ptr))
    /\ blocks' = Without(blocks, i)
    /\ last' = GaveBack("dealloc_raw", blocks[i])
    /\ UNCHANGED back_blocks

LinearReset ==
    /\ kind = "linear"
    /\ Called(linear_reset)
    /\ blocks' = <<>>
    /\ last' = NoRequest("reset")
    /\ UNCHANGED back_blocks

StackAlloc(sz, alignment, offset) ==
    /\ kind = "stack"
    /\ LET r == stack_alloc(sz, alignment, offset)
       IN  /\ Called(r)
           /\ blocks' = Held(blocks, r, <<sz, alignment, offset>>, storage.current_ptr)
           /\ last' = Request("alloc_raw", sz, alignment, offset, r.ptr)
    /\ UNCHANGED back_blocks

StackDealloc ==
    /\ kind = "stack"
    /\ blocks # <<>>
    /\ Called(stack_dealloc(blocks[Len(blocks)].ptr))
    /\ blocks' = Without(blocks, Len(blocks))
    /\ last' = GaveBack("dealloc_raw", blocks[Len(blocks)])
    /\ UNCHANGED back_blocks

StackReset ==
    /\ kind = "stack"
    /\ Called(stack_reset)
    /\ blocks' = <<>>
    /\ last' = NoRequest("reset")
    /\ UNCHANGED back_blocks

DEAllocRaw(sz, alignment, offset) ==
    /\ kind = "double_ended"
    /\ LET r == de_alloc_raw(sz, alignment, offset)
       IN  /\ Called(r)
           /\ blocks' = Held(blocks, r, <<sz, alignment, offset>>, storage.current_front_ptr)
           /\ last' = Request("alloc_raw", sz, alignment, offset, r.ptr)
    /\ UNCHANGED back_blocks

DEAllocRawBack(sz, alignment, offset) ==
    /\ kind = "double_ended"
    /\ LET r == de_alloc_raw_back(sz, alignment, offset)
       IN  /\ Called(r)
           /\ back_blocks' = Held(back_blocks, r, <<sz, alignment, offset>>,
                                   storage.current_end_ptr)
           /\ last' = Request("alloc_raw_back", sz, alignment, offset, r.ptr)
    /\ UNCHANGED blocks

DEDeallocRaw ==
    /\ kind = "double_ended"
    /\ blocks # <<>>
    /\ Called(de_dealloc_raw(blocks[Len(blocks)].ptr))
    /\ blocks' = Without(blocks, Len(blocks))
    /\ last' = GaveBack("dealloc_raw", blocks[Len(blocks)])
    /\ UNCHANGED back_blocks

DEDeallocRawBack ==
    /\ kind = "double_ended"
    /\ back_blocks # <<>>
    /\ Called(de_dealloc_raw_back(back_blocks[Len(back_blocks)].ptr))
    /\ back_blocks' = Without(back_blocks, Len(back_blocks))
    /\ last' = GaveBack("dealloc_raw_back", back_blocks[Len(back_blocks)])
    /\ UNCHANGED blocks

DEReset ==
    /\ kind = "double_ended"
    /\ Called(de_reset)
    /\ blocks' = <<>>
    /\ back_blocks' = <<>>
    /\ last' = NoRequest("reset")

\* the caller asks for the alignment and the offset the pool was built for
PoolAlloc(sz) ==
    /\ kind = "pool"
    /\ LET r == pool_alloc(sz, args[3], args[4])
       IN  /\ Called(r)
           /\ blocks' = Held(blocks, r, <<sz, args[3], args[4]>>, storage.free_list)
           /\ last' = Request("alloc_raw", sz, args[3], args[4], r.ptr)
    /\ UNCHANGED back_blocks

PoolDealloc(i) ==
    /\ kind = "pool"
    /\ Called(pool_dealloc(blocks[i].ptr))
    /\ blocks' = Without(blocks, i)
    /\ last' = GaveBack("dealloc_raw", blocks[i])
    /\ UNCHANGED back_blocks

PoolReset ==
    /\ kind = "pool"
    /\ Called(pool_reset)
    /\ blocks' = <<>>
    /\ last' = NoRequest("reset")
    /\ UNCHANGED back_blocks

AllocNext ==
    \/ \E q \in Requests : LinearAllocRaw(q[1], q[2], q[3])
    \/ \E i \in 1 .. Len(blocks) : LinearDeallocRaw(i)
    \/ LinearReset
    \/ \E q \in Requests : StackAlloc(q[1], q[2], q[3])
    \/ StackDealloc
    \/ StackReset
    \/ \E q \in Requests : DEAllocRaw(q[1], q[2], q[3])
    \/ \E q \in Requests : DEAllocRawBack(q[1], q[2], q[3])
    \/ DEDeallocRaw
    \/ DEDeallocRawBack
    \/ DEReset
    \/ \E sz \in {4, args[1]} : PoolAlloc(sz)
    \/ \E i \in 1 .. Len(blocks) : PoolDealloc(i)
    \/ PoolReset

SpecAlloc == AllocInit /\ [][AllocNext]_vars

(***************************************************************************)
(* Properties of the allocators                                            *)
(***************************************************************************)
\* C10: alignment: for each of the four allocators, every alloc_raw(s, a, o) (and
\* alloc_raw_back) that returns a user pointer P satisfies (P + o) mod a = 0, and
\* the bytes [P, P + s) lie inside the allocator's committed memory range.
C10_Alignment ==
    (last.op \in {"alloc_raw", "alloc_raw_back"} /\ last.ptr # NULL) =>
        /\ (last.ptr + last.offset) % last.alignment = 0
        /\ storage.mem_begin <= last.ptr
        /\ last.ptr + last.size
              <= committed_end(storage.mem_begin, storage.mem_end - storage.mem_begin)

\* the header size of the allocator this run constructed
MetaSize ==
    CASE kind = "linear" -> linear_ALLOCATION_META_SIZE
      [] kind = "stack" -> stack_ALLOCATION_META_SIZE
      [] kind = "double_ended" -> de_ALLOCATION_META_SIZE
      [] OTHER -> pool_ALLOCATION_META_SIZE

\* every block the caller holds, front and back
LiveBlocks == blocks \o back_blocks

\* the header of a live block is still the one its allocation wrote
HeaderIntact(b) ==
    IF kind = "pool"
    THEN words[b.ptr - pool_ALLOCATION_META_SIZE] = as_u32(b.size)
    ELSE /\ (b.ptr - MetaSize) \in DOMAIN headers
         /\ headers[b.ptr - MetaSize].allocation_size = as_u32(b.size)

\* C11: no aliasing: for each allocator, whatever allocations and (for the
\* stack-style allocators LIFO-ordered) deallocations were made, the byte ranges
\* [P, P + size) of any two live blocks are disjoint, no live block's payload
\* overlaps the header of another live block, and no later allocation has
\* overwritten what an earlier live block holds (its header is intact).
C11_NoAliasing ==
    /\ \A i, j \in 1 .. Len(LiveBlocks) :
          i # j =>
            \/ LiveBlocks[i].ptr + LiveBlocks[i].size <= LiveBlocks[j].ptr - MetaSize
            \/ LiveBlocks[j].ptr + LiveBlocks[j].size <= LiveBlocks[i].ptr - MetaSize
    /\ \A i \in 1 .. Len(LiveBlocks) : HeaderIntact(LiveBlocks[i])

\* an allocation has just succeeded on a double-ended allocator that already had
\* live blocks on both sides, one of them allocated after a deallocation
C11_Witness ==
    /\ kind = "double_ended"
    /\ alloc_status = "ok"
    /\ last.op \in {"alloc_raw", "alloc_raw_back"}
    /\ last.ptr # NULL
    /\ Len(blocks) >= 1
    /\ Len(back_blocks) >= 1
    /\ Len(LiveBlocks) >= 3
    /\ alloc_ops > Len(LiveBlocks)

\* C12: pool exhaustion and recovery: a PoolAllocator constructed with
\* element_count = N hands out exactly N blocks from the fresh state (the first N
\* alloc_raw calls succeed, the (N+1)-th returns none), and the alloc_raw that
\* follows a dealloc_raw returns the address that was just freed.
C12_PoolExhaustion ==
    [][ kind = "pool" =>
          \A sz \in {4, args[1]} :
            PoolAlloc(sz) =>
              /\ (Len(blocks) = alloc_ops /\ alloc_ops < args[2]) =>
                    (last'.ptr # NULL /\ alloc_status' = "ok")
              /\ (Len(blocks) = alloc_ops /\ alloc_ops = args[2]) =>
                    (last'.ptr = NULL /\ alloc_status' = "ok")
              /\ last.op = "dealloc_raw" =>
                    (last'.ptr = last.ptr /\ alloc_status' = "ok")
      ]_vars

\* C13: pool reuse: over any interleaving of alloc_raw and dealloc_raw (each
\* dealloc of a live block) that keeps at most element_count blocks live, no
\* alloc_raw returns none: an alloc_raw called while fewer than element_count
\* blocks are live returns a block.
C13_PoolReuse ==
    [][ kind = "pool" =>
          \A sz \in {4, args[1]} :
            (PoolAlloc(sz) /\ Len(blocks) < args[2]) =>
                (last'.ptr # NULL /\ alloc_status' = "ok")
      ]_vars

\* the pool is full again: element_count blocks are live, the last of them
\* allocated after an older block had been given back, whose address it reuses
C13_Witness ==
    /\ kind = "pool"
    /\ alloc_status = "ok"
    /\ last.op = "alloc_raw"
    /\ last.ptr # NULL
    /\ Len(blocks) = args[2]
    /\ alloc_ops >= args[2] + 2
    /\ \E i \in 1 .. (Len(blocks) - 1) : blocks[i].ptr > last.ptr

\* the pool's free list in pop order, and the blocks of its declared range
\* [first_block_ptr, mem_end)
PoolChain == Chain(words, storage.free_list, Cardinality(DOMAIN words) + 1)
PoolRangeBlocks ==
    [k \in 1 .. ((storage.mem_end - storage.first_block_ptr) \div storage.min_block_size)
        |-> storage.first_block_ptr + (k - 1) * storage.min_block_size]

\* C14: free list construction: new_from(begin, end, block_size) with block_size
\* >= pointer size yields a list of exactly floor((end - begin) / block_size)
\* blocks, namely begin + k * block_size for k in 0..n; popping returns each of
\* them exactly once and then null.  (The pool builds its list with new_from over
\* [first_block_ptr, mem_end) on construction and on reset.)
C14_FreeListConstruction ==
    (kind = "pool" /\ last.op \in {"new", "reset"}) =>
        /\ alloc_status = "ok"
        /\ PoolChain = PoolRangeBlocks

\* C15: free list well-formedness: after construction and after any sequence of
\* pops and pushes of popped blocks, every block reachable from the head lies
\* entirely within the declared range [begin, end), the chain is null-terminated
\* without cycle, no block occurs twice, and construction writes no next-pointer
\* at or beyond end.
C15_FreeListWellFormed ==
    (kind = "pool" /\ alloc_status = "ok") =>
        /\ \A j \in 1 .. Len(PoolChain) :
              /\ storage.first_block_ptr <= PoolChain[j]
              /\ PoolChain[j] + storage.min_block_size <= storage.mem_end
        /\ Len(PoolChain) <= Cardinality(DOMAIN words)
        /\ PoolChain # <<>> => words[PoolChain[Len(PoolChain)]] = NULL
        /\ \A i, j \in 1 .. Len(PoolChain) : PoolChain[i] = PoolChain[j] => i = j
        /\ last.op = "new" =>
              \A a \in DOMAIN words : words[a] # NULL => a + PointerSize <= storage.mem_end

\* C16: linear cursor monotonicity: over any sequence of alloc_raw (successful or
\* failing) and dealloc_raw on a LinearAllocator the cursor never decreases, and
\* dealloc_raw changes nothing; after reset the cursor equals base.
C16_LinearMonotone ==
    [][ (kind = "linear" /\ alloc_ops' # alloc_ops) =>
          /\ last'.op = "alloc_raw" => storage'.current_ptr >= storage.current_ptr
          /\ last'.op = "dealloc_raw" => storage' = storage
          /\ last'.op = "reset" => storage'.current_ptr = storage.mem_begin
      ]_vars

\* a block was given back while another is live: the cursor stays behind both
C16_Witness ==
    /\ kind = "linear"
    /\ last.op = "dealloc_raw"
    /\ Len(blocks) >= 1
    /\ storage.current_ptr >= last.ptr + last.size
    /\ storage.current_ptr >= blocks[1].ptr + blocks[1].size

\* C17: stack LIFO round trip: on a StackAllocator, for any sizes, alignments and
\* offsets, alloc(a); alloc(b); dealloc(b); dealloc(a) leaves the cursor equal to
\* its value before alloc(a), so re-issuing the same request returns the same
\* address: every dealloc of the most recently allocated live block, at any
\* nesting depth, restores the cursor that block's alloc found, and the block's
\* request then returns the block's address again.  (The allocation counter is
\* compiled in under cfg(stack_alloc_lifo_check) only.)
C17_StackRoundTrip ==
    [][ (kind = "stack" /\ StackDealloc) =>
          \A b \in {blocks[Len(blocks)]} :
            /\ alloc_status' = "ok"
            /\ storage'.current_ptr = b.before
            /\ stack_alloc(b.size, b.alignment, b.offset)'.ptr = b.ptr
      ]_vars

\* alloc(a); alloc(b); dealloc(b) with padding in front of b: a is still live and
\* the cursor is back at the end of a
C17_Witness ==
    /\ kind = "stack"
    /\ alloc_status = "ok"
    /\ last.op = "dealloc_raw"
    /\ Len(blocks) = 1
    /\ last.ptr > blocks[1].ptr
    /\ storage.current_ptr = blocks[1].ptr + blocks[1].size
    /\ last.ptr - stack_ALLOCATION_META_SIZE > storage.current_ptr

\* C18: double-ended stack invariant: in every state reachable by alloc_raw,
\* alloc_raw_back, dealloc_raw, dealloc_raw_back (LIFO per side) and reset,
\* including after allocations that returned none,
\* base <= front_cursor <= back_cursor <= end.
C18_DECursorOrder ==
    kind = "double_ended" =>
        /\ storage.mem_begin <= storage.current_front_ptr
        /\ storage.current_front_ptr <= storage.current_end_ptr
        /\ storage.current_end_ptr <= storage.mem_end

\* a block for the request (header plus payload, the user pointer aligned as
\* asked) can be placed between the two cursors
Fits(sz, alignment, offset) ==
    \E P \in (storage.current_front_ptr + de_ALLOCATION_META_SIZE)
                .. (storage.current_end_ptr - sz) :
        (P + offset) % alignment = 0

\* the block does not touch block b: headers and payloads are disjoint
Apart(ptr, sz, b) ==
    \/ ptr + sz <= b.ptr - de_ALLOCATION_META_SIZE
    \/ b.ptr + b.size <= ptr - de_ALLOCATION_META_SIZE

\* C19: double-ended isolation: alloc_raw and alloc_raw_back return none whenever
\* the requested block (header plus payload) does not fit between the two
\* cursors, and a successful allocation on one side never overlaps the header or
\* payload of any live block of the other side.
C19_DEIsolation ==
    [][ kind = "double_ended" =>
          \A q \in Requests :
            /\ (DEAllocRaw(q[1], q[2], q[3]) \/ DEAllocRawBack(q[1], q[2], q[3])) =>
                  /\ ~Fits(q[1], q[2], q[3]) => (last'.ptr = NULL /\ alloc_status' = "ok")
            /\ (DEAllocRaw(q[1], q[2], q[3]) /\ last'.ptr # NULL) =>
                  \A i \in 1 .. Len(back_blocks) : Apart(last'.ptr, q[1], back_blocks[i])
            /\ (DEAllocRawBack(q[1], q[2], q[3]) /\ last'.ptr # NULL) =>
                  \A i \in 1 .. Len(blocks) : Apart(last'.ptr, q[1], blocks[i])
      ]_vars

\* C20: wrong-half detection: in any reachable state of a
\* DoubleEndedStackAllocator (debug build), dealloc_raw called with a live block
\* obtained from alloc_raw_back triggers the front-block assertion, and
\* dealloc_raw_back called with a live block obtained from alloc_raw triggers the
\* back-block assertion.
C20_WrongHalf ==
    (kind = "double_ended" /\ debug_build /\ alloc_status = "ok") =>
        /\ \A i \in 1 .. Len(back_blocks) :
              de_dealloc_raw(back_blocks[i].ptr).status = "assert"
        /\ \A i \in 1 .. Len(blocks) :
              de_dealloc_raw_back(blocks[i].ptr).status = "assert"

(***************************************************************************)
(* Part 3: bounds checker and memory realms                                *)
(*                                                                         *)
(* A realm writes and reads 4-byte words at addresses it computes, so the  *)
(* memory behind a realm is seen byte by byte: the bytes written through   *)
(* the realm (realm_memory), under them the header words of the allocator, *)
(* and zero for the bytes of the fresh pages nothing has written.          *)
(***************************************************************************)
\* size handed to BasicMemoryRealm::new
RealmArenaSize == 256
\* calls made on one realm in one run
MaxRealmOps == 5

\* SimpleBoundsChecker::default().canary, 0xCA
canary == 202
\* size_of::<u32>()
canary_size == 4
\* the value the repository's tests stomp a canary with, 0xCC
stomp == 204

\* <<size, alignment>> of the requests made on a basic realm
RealmRequests == {<<4, 1>>, <<186, 1>>, <<8, 4>>}
\* <<element_size, element_count, element_alignment>> of the typed realm
TypedRealmConfig == <<8, 2, 4>>

\* byte k of the little-endian encoding of v; the addresses and sizes of the model
\* fit in four bytes
Byte(v, k) == IF k >= 4 THEN 0 ELSE (v \div (256 ^ k)) % 256

\* the byte the allocator's own words put at address x
HeaderByte(x) ==
    IF kind = "pool"
    THEN IF \E b \in DOMAIN words : b <= x /\ x < b + PointerSize
         THEN LET b == CHOOSE c \in DOMAIN words : c <= x /\ x < c + PointerSize
              IN  Byte(words[b], x - b)
         ELSE 0
    ELSE IF kind = "linear"
    THEN IF \E h \in DOMAIN headers : h <= x /\ x < h + linear_ALLOCATION_META_SIZE
         THEN LET h == CHOOSE c \in DOMAIN headers :
                           c <= x /\ x < c + linear_ALLOCATION_META_SIZE
              IN  Byte(headers[h].allocation_size, x - h)
         ELSE 0
    ELSE IF \E h \in DOMAIN headers : h <= x /\ x < h + stack_ALLOCATION_META_SIZE
         THEN LET h == CHOOSE c \in DOMAIN headers :
                           c <= x /\ x < c + stack_ALLOCATION_META_SIZE
              IN  IF x < h + 4 THEN Byte(headers[h].allocation_offset, x - h)
                  ELSE Byte(headers[h].allocation_size, x - h - 4)
         ELSE 0

ByteAt(x) == IF x \in DOMAIN realm_memory THEN realm_memory[x] ELSE HeaderByte(x)

\* ptr::read(a as *const u32), as its four bytes and as a number
read_bytes(a) == <<ByteAt(a), ByteAt(a + 1), ByteAt(a + 2), ByteAt(a + 3)>>
read_u32(a) ==
    ByteAt(a) + 256 * ByteAt(a + 1) + 65536 * ByteAt(a + 2) + 16777216 * ByteAt(a + 3)

\* ptr::write(a as *mut u32, v) into the bytes m
write_u32(m, a, v) ==
    [x \in DOMAIN m \cup (a .. (a + 3)) |->
        IF x \in a .. (a + 3) THEN Byte(v, x - a) ELSE m[x]]

\* the bytes [lo, hi) are overwritten by a word of the allocator
overwritten(m, lo, hi) == [x \in {y \in DOMAIN m : y < lo \/ y >= hi} |-> m[x]]

\* a 4-byte read at a stays inside the committed pages
Readable(a) ==
    /\ storage.mem_begin <= a
    /\ a + 4 <= committed_end(storage.mem_begin, storage.mem_end - storage.mem_begin)

(***************************************************************************)
(* get_allocation_size of the allocators                                   *)
(***************************************************************************)
linear_get_allocation_size(ptr) == read_u32(ptr - linear_ALLOCATION_META_SIZE)

stack_get_allocation_size(ptr) == read_u32(ptr - stack_ALLOCATION_META_SIZE + 4)

\* get_allocation_size that reads the first field of the header (a faulty variant)
de_get_allocation_offset(ptr) == read_u32(ptr - de_ALLOCATION_META_SIZE)

de_get_allocation_size(ptr) == read_u32(ptr - de_ALLOCATION_META_SIZE + 4)

pool_get_allocation_size(ptr) == read_u32(ptr - pool_ALLOCATION_META_SIZE)

(***************************************************************************)
(* SimpleBoundsChecker                                                     *)
(***************************************************************************)
write_canary(m, a) == write_u32(m, a, canary)

\* validate_front_canary / validate_back_canary: "ok", or how the process dies
validate_front_canary(a) ==
    IF a = NULL \/ ~debug_build THEN "ok"
    ELSE IF ~Readable(a) THEN "segv"
    ELSE IF read_bytes(a) = <<Byte(canary, 0), Byte(canary, 1), Byte(canary, 2), Byte(canary, 3)>>
    THEN "ok"
    ELSE "front_canary"

validate_back_canary(a) ==
    IF a = NULL \/ ~debug_build THEN "ok"
    ELSE IF ~Readable(a) THEN "segv"
    ELSE IF read_bytes(a) = <<Byte(canary, 0), Byte(canary, 1), Byte(canary, 2), Byte(canary, 3)>>
    THEN "ok"
    ELSE "back_canary"

(***************************************************************************)
(* BasicMemoryRealm<LinearAllocator, SimpleBoundsChecker> and              *)
(* TypedMemoryRealm<PoolAllocator, SimpleBoundsChecker>                    *)
(***************************************************************************)
\* what a realm operation hands back: the allocator's outcome r, the bytes written
\* through the realm, how the call ended and the pointer the caller gets
RealmOutcome(r, m, s, p) ==
    [storage |-> r.storage, words |-> r.words, headers |-> r.headers,
     memory |-> m, status |-> s, ptr |-> p]

\* the first validation that fails ends the call
first_failure(front, back) == IF front # "ok" THEN front ELSE back

\* BasicMemoryRealm::alloc
basic_realm_alloc(sz, alignment) ==
    LET total_allocation_size == sz + (canary_size * 2)
        block == linear_alloc_raw(total_allocation_size, alignment, canary_size)
        user_ptr == block.ptr
        header_written == overwritten(realm_memory, user_ptr - linear_ALLOCATION_META_SIZE, user_ptr)
    IN
    IF block.status # "ok" \/ block.ptr = NULL
    THEN RealmOutcome(block, realm_memory, block.status, NULL)
    ELSE RealmOutcome(block,
                      write_canary(write_canary(header_written, user_ptr),
                                   user_ptr + sz + canary_size),
                      "ok", user_ptr + canary_size)

\* BasicMemoryRealm::dealloc: the size is asked for the caller's pointer
basic_realm_dealloc(ptr) ==
    LET allocated_ptr == ptr - canary_size
        allocation_size == linear_get_allocation_size(ptr)
        front == validate_front_canary(allocated_ptr)
        back == validate_back_canary(allocated_ptr + allocation_size + canary_size)
    IN
    IF first_failure(front, back) # "ok"
    THEN RealmOutcome(Outcome(storage, words, headers, "ok", NULL), realm_memory,
                      first_failure(front, back), NULL)
    ELSE RealmOutcome(linear_dealloc_raw(ptr), realm_memory, "ok", NULL)

\* BasicMemoryRealm::reset
basic_realm_reset == RealmOutcome(linear_reset, realm_memory, "ok", NULL)

\* TypedMemoryRealm::new
typed_realm_new(element_size, element_count, element_alignment) ==
    pool_new(element_size + (canary_size * 2), element_count, element_alignment, canary_size)

\* TypedMemoryRealm::alloc
typed_realm_alloc(sz, alignment) ==
    LET block == pool_alloc(sz, alignment, 0)
        user_ptr == block.ptr
        header_written == overwritten(realm_memory, user_ptr - pool_ALLOCATION_META_SIZE, user_ptr)
    IN
    IF block.status # "ok" \/ block.ptr = NULL
    THEN RealmOutcome(block, realm_memory, block.status, NULL)
    ELSE RealmOutcome(block,
                      write_canary(write_canary(header_written, user_ptr),
                                   user_ptr + sz + canary_size),
                      "ok", user_ptr + canary_size)

\* TypedMemoryRealm::dealloc: the size is asked for the pointer the pool gave
typed_realm_dealloc(ptr) ==
    LET original_mem_block == ptr - canary_size
        allocation_size == pool_get_allocation_size(original_mem_block)
        front == validate_front_canary(original_mem_block)
        back == validate_back_canary(original_mem_block + allocation_size + canary_size)
        given_back == pool_dealloc(original_mem_block)
        block_ptr == original_mem_block - pool_ALLOCATION_META_SIZE
    IN
    IF first_failure(front, back) # "ok"
    THEN RealmOutcome(Outcome(storage, words, headers, "ok", NULL), realm_memory,
                      first_failure(front, back), NULL)
    ELSE RealmOutcome(given_back, overwritten(realm_memory, block_ptr, block_ptr + PointerSize),
                      given_back.status, NULL)

\* the words new_from writes when it links the blocks again
relinked(m, begin, end, block_size) ==
    LET written == {begin} \cup {begin + k * block_size :
                                    k \in 2 .. ((end - begin) \div block_size)}
    IN  [x \in {y \in DOMAIN m : \A b \in written : y < b \/ y >= b + PointerSize} |-> m[x]]

\* TypedMemoryRealm::reset
typed_realm_reset ==
    LET r == pool_reset
    IN  RealmOutcome(r, relinked(realm_memory, storage.first_block_ptr, storage.mem_end,
                                 storage.min_block_size),
                     r.status, NULL)

(***************************************************************************)
(* A realm under an arbitrary caller.  The caller gives back only blocks   *)
(* it holds and may overwrite the words next to the user range of a block  *)
(* it holds.  realm_blocks holds, for each block, the pointer the realm    *)
(* returned and the request that produced it.                              *)
(***************************************************************************)
RealmCalled(r) ==
    /\ alloc_status = "ok"
    /\ alloc_ops < MaxRealmOps
    /\ alloc_ops' = alloc_ops + 1
    /\ storage' = r.storage
    /\ words' = r.words
    /\ headers' = r.headers
    /\ realm_memory' = r.memory
    /\ alloc_status' = r.status
    /\ UNCHANGED <<debug_build, kind, args, realm, blocks, back_blocks, hmVars, containerVars>>

RealmInit ==
    /\ debug_build \in BOOLEAN
    /\ NoHandleMap
    /\ NoVector
    /\ NoRingBuffer
    /\ \/ /\ realm = "basic"
          /\ kind = "linear"
          /\ args = <<RealmArenaSize>>
          /\ storage = linear_new(RealmArenaSize)
          /\ words = <<>>
          /\ alloc_status = "ok"
       \/ LET p == typed_realm_new(TypedRealmConfig[1], TypedRealmConfig[2], TypedRealmConfig[3])
          IN  /\ realm = "typed"
              /\ kind = "pool"
              /\ args = TypedRealmConfig
              /\ storage = p.storage
              /\ words = p.words
              /\ alloc_status = p.status
    /\ headers = <<>>
    /\ realm_memory = <<>>
    /\ realm_blocks = <<>>
    /\ blocks = <<>>
    /\ back_blocks = <<>>
    /\ last = NoRequest("new")
    /\ alloc_ops = 0

\* a block the caller of the realm holds
RealmHeld(s, r, sz, alignment) ==
    IF r.ptr = NULL THEN s
    ELSE Append(s, [ptr |-> r.ptr, size |-> sz, alignment |-> alignment])

BasicRealmAlloc(sz, alignment) ==
    /\ realm = "basic"
    /\ LET r == basic_realm_alloc(sz, alignment)
       IN  /\ RealmCalled(r)
           /\ realm_blocks' = RealmHeld(realm_blocks, r, sz, alignment)
           /\ last' = Request("alloc", sz, alignment, 0, r.ptr)

BasicRealmDealloc(i) ==
    /\ realm = "basic"
    /\ RealmCalled(basic_realm_dealloc(realm_blocks[i].ptr))
    /\ realm_blocks' = Without(realm_blocks, i)
    /\ last' = Request("dealloc", realm_blocks[i].size, realm_blocks[i].alignment, 0,
                       realm_blocks[i].ptr)

BasicRealmReset ==
    /\ realm = "basic"
    /\ RealmCalled(basic_realm_reset)
    /\ realm_blocks' = <<>>
    /\ last' = NoRequest("reset")

TypedRealmAlloc(sz, alignment) ==
    /\ realm = "typed"
    /\ LET r == typed_realm_alloc(sz, alignment)
       IN  /\ RealmCalled(r)
           /\ realm_blocks' = RealmHeld(realm_blocks, r, sz, alignment)
           /\ last' = Request("alloc", sz, alignment, 0, r.ptr)

TypedRealmDealloc(i) ==
    /\ realm = "typed"
    /\ RealmCalled(typed_realm_dealloc(realm_blocks[i].ptr))
    /\ realm_blocks' = Without(realm_blocks, i)
    /\ last' = Request("dealloc", realm_blocks[i].size, realm_blocks[i].alignment, 0,
                       realm_blocks[i].ptr)

TypedRealmReset ==
    /\ realm = "typed"
    /\ RealmCalled(typed_realm_reset)
    /\ realm_blocks' = <<>>
    /\ last' = NoRequest("reset")

\* the caller writes 0xCC over the word in front of the user range of a block
StompFront(i) ==
    /\ alloc_status = "ok"
    /\ alloc_ops < MaxRealmOps
    /\ alloc_ops' = alloc_ops + 1
    /\ realm_memory' = write_u32(realm_memory, realm_blocks[i].ptr - canary_size, stomp)
    /\ last' = Request("stomp_front", realm_blocks[i].size, realm_blocks[i].alignment, 0,
                       realm_blocks[i].ptr)
    /\ UNCHANGED <<debug_build, hmVars, kind, args, storage, words, headers, alloc_status,
                   blocks, back_blocks, realm, realm_blocks, containerVars>>

\* the caller writes 0xCC over the word behind the user range of a block
StompBack(i) ==
    /\ alloc_status = "ok"
    /\ alloc_ops < MaxRealmOps
    /\ alloc_ops' = alloc_ops + 1
    /\ realm_memory' = write_u32(realm_memory, realm_blocks[i].ptr + realm_blocks[i].size, stomp)
    /\ last' = Request("stomp_back", realm_blocks[i].size, realm_blocks[i].alignment, 0,
                       realm_blocks[i].ptr)
    /\ UNCHANGED <<debug_build, hmVars, kind, args, storage, words, headers, alloc_status,
                   blocks, back_blocks, realm, realm_blocks, containerVars>>

RealmNext ==
    \/ \E q \in RealmRequests : BasicRealmAlloc(q[1], q[2])
    \/ \E i \in 1 .. Len(realm_blocks) : BasicRealmDealloc(i)
    \/ BasicRealmReset
    \/ \E sz \in {4, 8} : TypedRealmAlloc(sz, TypedRealmConfig[3])
    \/ \E i \in 1 .. Len(realm_blocks) : TypedRealmDealloc(i)
    \/ TypedRealmReset
    \/ \E i \in 1 .. Len(realm_blocks) : StompFront(i)
    \/ \E i \in 1 .. Len(realm_blocks) : StompBack(i)

SpecRealm == RealmInit /\ [][RealmNext]_vars

(***************************************************************************)
(* Properties of the memory realms                                         *)
(***************************************************************************)
\* the sentinel word as write_canary stores it
CanaryWord == <<Byte(canary, 0), Byte(canary, 1), Byte(canary, 2), Byte(canary, 3)>>

\* the words directly before and directly after the user range of a block
FrontSentinel(b) == read_bytes(b.ptr - canary_size)
BackSentinel(b) == read_bytes(b.ptr + b.size)

\* how dealloc of the realm at hand would end for the pointer ptr
DeallocStatus(ptr) ==
    IF realm = "basic" THEN basic_realm_dealloc(ptr).status ELSE typed_realm_dealloc(ptr).status

\* C21: canary detection: in a debug build, for a realm with the canary bounds
\* checker, if the 4-byte sentinel word directly before or directly after the
\* user range of a live realm allocation has been overwritten with a different
\* value, dealloc of that allocation triggers the canary assertion, the front
\* one when the front word is overwritten, else the back one.
C21_CanaryDetection ==
    (realm # "none" /\ debug_build /\ alloc_status = "ok") =>
        \A i \in 1 .. Len(realm_blocks) :
            /\ FrontSentinel(realm_blocks[i]) # CanaryWord =>
                  DeallocStatus(realm_blocks[i].ptr) = "front_canary"
            /\ (FrontSentinel(realm_blocks[i]) = CanaryWord
                    /\ BackSentinel(realm_blocks[i]) # CanaryWord) =>
                  DeallocStatus(realm_blocks[i].ptr) = "back_canary"

\* C22: realm alloc/dealloc agreement: alloc(size, alignment) returning p has
\* written the sentinel 0xCA at p - 4 and at p + size, and dealloc of a live block
\* whose two sentinel words are unmodified never asserts and returns the
\* underlying block to the allocator (the pool block becomes the head of the free
\* list), for the basic and for the typed realm.
C22_RealmAgreement ==
    (realm # "none" /\ alloc_status = "ok") =>
        /\ (last.op = "alloc" /\ last.ptr # NULL) =>
              /\ read_bytes(last.ptr - canary_size) = CanaryWord
              /\ read_bytes(last.ptr + last.size) = CanaryWord
        /\ \A i \in 1 .. Len(realm_blocks) :
              (FrontSentinel(realm_blocks[i]) = CanaryWord
                  /\ BackSentinel(realm_blocks[i]) = CanaryWord) =>
                /\ DeallocStatus(realm_blocks[i].ptr) = "ok"
                /\ realm = "typed" =>
                      typed_realm_dealloc(realm_blocks[i].ptr).storage.free_list
                         = realm_blocks[i].ptr - canary_size - pool_ALLOCATION_META_SIZE

(***************************************************************************)
(* Part 4: Vector (container/src/vector.rs)                                *)
(*                                                                         *)
(* The vector reserves MAX_VECTOR_CAPACITY bytes of address space and      *)
(* commits pages behind its element array as it grows.  The element array  *)
(* is modelled slot by slot: a slot keeps the bits last written to it,     *)
(* also when the element was moved out.  An access to a slot that is not   *)
(* wholly inside the committed pages is undefined: the process dies of an  *)
(* access violation, or the address belongs to some other mapping and the  *)
(* access goes through; a slot that has been written stays accessible.     *)
(***************************************************************************)
\* the reservation of one vector: 1 GiB in the source, two pages here
MAX_VECTOR_CAPACITY == 8192
\* mem::size_of::<T>() of the element type
ElementSize == 2048
\* calls made on one vector in one run
MaxVecOps == 6

\* elements the vector grows by on the first push
INITIAL_GROW_AMOUNT == 8
\* Item::default() of the repository's tests
DefaultItem == 42

\* the address reserve_address_space hands back
vector_virtual_mem == physical_address_space
\* the address VirtualAlloc picks when it is asked to commit at no address
os_region == 2 * physical_address_space

round_to_previous_multiple(num, multiple) ==
    LET remainer == num % multiple
    IN  num - remainer

\* virtual_mem::commit_physical_memory inside or behind the reservation [lo, hi):
\* VirtualAlloc commits reserved pages, finds a region of its own for a null
\* address, and fails for no bytes or for pages that were not reserved
commit_physical_memory(lo, hi, base_address, mem_size) ==
    IF mem_size = 0 THEN NULL
    ELSE IF base_address = NULL THEN os_region
    ELSE IF lo <= base_address /\ base_address + mem_size <= hi THEN base_address
    ELSE NULL

\* Vector::new
vector_new ==
    [virtual_mem_begin |-> vector_virtual_mem,
     virtual_mem_end |-> vector_virtual_mem + MAX_VECTOR_CAPACITY,
     internal_array_begin |-> vector_virtual_mem,
     internal_array_end |-> vector_virtual_mem,
     capacity |-> 0,
     size |-> 0]

max_elements == MAX_VECTOR_CAPACITY \div ElementSize

get_grow_size(v) == IF v.capacity # 0 THEN v.capacity * 2 ELSE INITIAL_GROW_AMOUNT

\* Vector::grow on the vector v with c bytes committed
grow(v, c, bytes) ==
    LET page_bytes_to_grow == round_to_next_multiple(bytes, PageSize)
        is_enough_space_for_requested_pages ==
            v.internal_array_end + page_bytes_to_grow <= v.virtual_mem_end
        grow_by_bytes ==
            IF is_enough_space_for_requested_pages THEN page_bytes_to_grow
            ELSE round_to_previous_multiple(v.virtual_mem_end - v.internal_array_end, PageSize)
        ptr == commit_physical_memory(v.virtual_mem_begin, v.virtual_mem_end,
                                      v.internal_array_end, grow_by_bytes)
    IN  [vector |-> [v EXCEPT !.internal_array_end = ptr + grow_by_bytes,
                              !.capacity = v.capacity + (grow_by_bytes \div ElementSize)],
         committed |-> IF ptr # NULL /\ ptr = v.virtual_mem_begin + c THEN c + grow_by_bytes
                       ELSE c,
         status |-> IF debug_build /\ v.internal_array_begin = v.virtual_mem_end
                    THEN "assert" ELSE "ok"]

\* the element array: what index idx holds, and the array after a write to idx
load(s, idx) == IF idx + 1 <= Len(s) THEN s[idx + 1] ELSE 0

store(s, idx, item) ==
    [k \in 1 .. (IF Len(s) > idx + 1 THEN Len(s) ELSE idx + 1) |->
        IF k = idx + 1 THEN item ELSE IF k <= Len(s) THEN s[k] ELSE 0]

RECURSIVE store_all(_, _, _, _)
store_all(s, from, to, item) ==
    IF from >= to THEN s ELSE store_all(store(s, from, item), from + 1, to, item)

\* ptr::copy of count elements from index src to index dst
copy(s, src, dst, count) ==
    [k \in 1 .. (IF Len(s) > dst + count THEN Len(s) ELSE dst + count) |->
        IF dst + 1 <= k /\ k <= dst + count THEN load(s, src + (k - 1 - dst))
        ELSE load(s, k - 1)]

\* the elements at the indices from .. to - 1 lie inside the c committed bytes
InCommitted(c, from, to) == from >= to \/ to * ElementSize <= c

\* ... or in memory the process has written before
Touchable(s, c, from, to) == InCommitted(c, from, to) \/ to <= Len(s)

\* what an operation hands back to the action that called it; the result is the
\* item returned, None for none and for the operations that return nothing
VOutcome(v, s, c, d, st, res) ==
    [vector |-> v, slots |-> s, committed |-> c, dropped |-> d, status |-> st, result |-> res]

\* an access outside the committed bytes kills the process unless it goes through
Access(ok, survives) == IF ok \/ survives THEN "ok" ELSE "segv"

\* Vector::push
push(item, survives) ==
    LET g == IF vector.size = vector.capacity
             THEN grow(vector, committed, get_grow_size(vector) * ElementSize)
             ELSE [vector |-> vector, committed |-> committed, status |-> "ok"]
        written == Touchable(slots, g.committed, g.vector.size, g.vector.size + 1)
    IN
    IF g.status # "ok" THEN VOutcome(vector, slots, committed, <<>>, g.status, None)
    ELSE IF Access(written, survives) # "ok"
    THEN VOutcome(g.vector, slots, g.committed, <<>>, "segv", None)
    ELSE VOutcome([g.vector EXCEPT !.size = g.vector.size + 1],
                  store(slots, g.vector.size, item), g.committed, <<>>, "ok", None)

\* pop that moves the last element out and keeps counting it (a faulty variant)
pop_keeping_size ==
    IF vector.size = 0 THEN VOutcome(vector, slots, committed, <<>>, "ok", None)
    ELSE VOutcome(vector, slots, committed, <<>>, "ok", load(slots, vector.size - 1))

\* Vector::pop
pop ==
    IF vector.size = 0 THEN VOutcome(vector, slots, committed, <<>>, "ok", None)
    ELSE IF Access(Touchable(slots, committed, vector.size - 1, vector.size), FALSE) # "ok"
    THEN VOutcome([vector EXCEPT !.size = vector.size - 1], slots, committed, <<>>, "segv", None)
    ELSE VOutcome([vector EXCEPT !.size = vector.size - 1], slots, committed, <<>>, "ok",
                  load(slots, vector.size - 1))

\* erase that closes the gap with one element too few (a faulty variant)
erase_short_copy(index) ==
    VOutcome([vector EXCEPT !.size = vector.size - 1],
             copy(slots, index + 1, index,
                  IF vector.size - 1 - index > 0 THEN vector.size - 2 - index ELSE 0),
             committed, <<load(slots, index)>>, "ok", None)

\* Vector::erase
erase(index) ==
    LET touched == Touchable(slots, committed, index, vector.size)
    IN
    IF debug_build /\ ~(index < vector.size)
    THEN VOutcome(vector, slots, committed, <<>>, "assert", None)
    ELSE IF Access(touched, FALSE) # "ok"
    THEN VOutcome(vector, slots, committed, <<>>, "segv", None)
    ELSE VOutcome([vector EXCEPT !.size = vector.size - 1],
                  copy(slots, index + 1, index, vector.size - 1 - index),
                  committed, <<load(slots, index)>>, "ok", None)

\* Vector::erase_range; the loop that destructs runs over begin .. erasing_element_count
erase_range(begin, end, survives) ==
    LET erasing_element_count == (end - begin) + 1
        destructed == [k \in 1 .. (IF erasing_element_count + 1 > begin
                                   THEN erasing_element_count + 1 - begin ELSE 0) |->
                          load(slots, begin + k - 1)]
        touched == /\ Touchable(slots, committed, begin, erasing_element_count + 1)
                   /\ Touchable(slots, committed, begin, vector.size)
    IN
    IF begin = end THEN VOutcome(vector, slots, committed, <<>>, "ok", None)
    ELSE IF debug_build /\ ~(begin <= end /\ end < vector.size)
    THEN VOutcome(vector, slots, committed, <<>>, "assert", None)
    ELSE IF Access(touched, survives) # "ok"
    THEN VOutcome(vector, slots, committed, <<>>, "segv", None)
    ELSE VOutcome([vector EXCEPT !.size = vector.size - erasing_element_count],
                  copy(slots, end + 1, begin, vector.size - erasing_element_count - begin),
                  committed, destructed, "ok", None)

\* Vector::resize and Vector::resize_with_template: the new tail is filled with
\* item; the loop that pops the truncated tail runs over size .. new_size, no index
resize_to(new_size, item, survives) ==
    LET g == IF new_size > vector.capacity
             THEN grow(vector, committed, (new_size - vector.capacity) * ElementSize)
             ELSE [vector |-> vector, committed |-> committed, status |-> "ok"]
        written == Touchable(slots, g.committed, vector.size, new_size)
    IN
    IF debug_build /\ new_size > max_elements
    THEN VOutcome(vector, slots, committed, <<>>, "assert", None)
    ELSE IF new_size = vector.size
    THEN VOutcome(vector, slots, committed, <<>>, "ok", None)
    ELSE IF new_size < vector.size
    THEN VOutcome([vector EXCEPT !.size = new_size], slots, committed, <<>>, "ok", None)
    ELSE IF g.status # "ok"
    THEN VOutcome(vector, slots, committed, <<>>, g.status, None)
    ELSE IF Access(written, survives) # "ok"
    THEN VOutcome(g.vector, slots, g.committed, <<>>, "segv", None)
    ELSE VOutcome([g.vector EXCEPT !.size = new_size],
                  store_all(slots, vector.size, new_size, item),
                  g.committed, <<>>, "ok", None)

\* Vector::reserve
reserve(new_capacity) ==
    LET g == grow(vector, committed, (new_capacity - vector.capacity) * ElementSize)
    IN
    IF debug_build /\ ~(new_capacity <= max_elements)
    THEN VOutcome(vector, slots, committed, <<>>, "assert", None)
    ELSE IF new_capacity <= vector.capacity
    THEN VOutcome(vector, slots, committed, <<>>, "ok", None)
    ELSE VOutcome(g.vector, slots, g.committed, <<>>, g.status, None)

(***************************************************************************)
(* The vector under an arbitrary caller, which keeps the preconditions of  *)
(* erase, erase_range, resize and reserve.  The items pushed are numbered  *)
(* by the call that pushes them, so no two elements pushed are equal.      *)
(***************************************************************************)
VecCall(op, a, b) == [op |-> op, a |-> a, b |-> b]

VecCalled(r, call) ==
    /\ vec_status = "ok"
    /\ vec_ops < MaxVecOps
    /\ vec_ops' = vec_ops + 1
    /\ vector' = r.vector
    /\ slots' = r.slots
    /\ committed' = r.committed
    /\ dropped' = r.dropped
    /\ vec_status' = r.status
    /\ vec_last' = [call |-> call, result |-> r.result]
    /\ UNCHANGED <<debug_build, hmVars, allocVars, realmVars, ringVars>>

VecInit ==
    /\ debug_build \in BOOLEAN
    /\ NoHandleMap
    /\ NoAllocator
    /\ NoRealm
    /\ NoRingBuffer
    /\ vector = vector_new
    /\ slots = <<>>
    /\ committed = 0
    /\ dropped = <<>>
    /\ vec_status = "ok"
    /\ vec_last = [call |-> VecCall("new", 0, 0), result |-> None]
    /\ vec_ops = 0

Push(survives) ==
    /\ vec_status = "ok"
    /\ VecCalled(push(vec_ops + 1, survives), VecCall("push", vec_ops + 1, 0))

Pop ==
    /\ vec_status = "ok"
    /\ VecCalled(pop, VecCall("pop", 0, 0))

Erase(index) ==
    /\ index < vector.size
    /\ VecCalled(erase(index), VecCall("erase", index, 0))

EraseRange(begin, end, survives) ==
    /\ begin <= end
    /\ end < vector.size
    /\ VecCalled(erase_range(begin, end, survives), VecCall("erase_range", begin, end))

Resize(new_size, survives) ==
    /\ new_size <= max_elements
    /\ VecCalled(resize_to(new_size, DefaultItem, survives), VecCall("resize", new_size, 0))

ResizeWithTemplate(new_size, survives) ==
    /\ new_size <= max_elements
    /\ VecCalled(resize_to(new_size, vec_ops + 1, survives),
                 VecCall("resize_with_template", new_size, vec_ops + 1))

Reserve(new_capacity) ==
    /\ new_capacity <= max_elements
    /\ VecCalled(reserve(new_capacity), VecCall("reserve", new_capacity, 0))

VecNext ==
    \/ \E survives \in BOOLEAN : Push(survives)
    \/ Pop
    \/ \E index \in 0 .. max_elements : Erase(index)
    \/ \E begin \in 0 .. max_elements, end \in 0 .. max_elements, survives \in BOOLEAN :
          EraseRange(begin, end, survives)
    \/ \E new_size \in 0 .. max_elements, survives \in BOOLEAN : Resize(new_size, survives)
    \/ \E new_size \in 0 .. max_elements, survives \in BOOLEAN :
          ResizeWithTemplate(new_size, survives)
    \/ \E new_capacity \in 0 .. max_elements : Reserve(new_capacity)

SpecVector == VecInit /\ [][VecNext]_vars

(***************************************************************************)
(* Properties of the Vector                                                *)
(***************************************************************************)
\* C23: vector invariant: after any sequence of push, pop, erase, erase_range,
\* resize, resize_with_template and reserve, pushes on a wholly committed
\* reservation included, 0 <= size <= capacity and
\* elements_begin + capacity * sizeof(T) <= committed_end <= reserved_end.
C23_VectorInvariant ==
    (DOMAIN vector # {} /\ vec_status = "ok") =>
        /\ 0 <= vector.size
        /\ vector.size <= vector.capacity
        /\ vector.internal_array_begin + vector.capacity * ElementSize
              <= vector.internal_array_end
        /\ vector.internal_array_end <= vector.virtual_mem_end

\* the elements of the vector, first to last
Elements(v, s) == [k \in 1 .. v.size |-> load(s, k - 1)]

\* C24: pop returns none exactly when size = 0, leaving the vector unchanged;
\* otherwise it returns the element at index size - 1, decrements size by one and
\* leaves capacity and the remaining elements unchanged.
C24_Pop ==
    [][ Pop =>
          /\ vec_status' = "ok"
          /\ (vec_last'.result = None) <=> (vector.size = 0)
          /\ vector.size = 0 => (vector' = vector /\ slots' = slots)
          /\ vector.size > 0 =>
                /\ vec_last'.result = load(slots, vector.size - 1)
                /\ vector'.size = vector.size - 1
                /\ vector'.capacity = vector.capacity
                /\ Elements(vector', slots') = SubSeq(Elements(vector, slots), 1, vector.size - 1)
      ]_vars

\* a pop that returned an element pushed earlier, from a vector that keeps others
C24_Witness ==
    /\ DOMAIN vector # {}
    /\ vec_status = "ok"
    /\ vec_last.call.op = "pop"
    /\ vec_last.result > 0
    /\ vec_last.result # DefaultItem
    /\ vector.size > 0

\* C25: erase_range: for every begin <= end < size, begin = end included,
\* erase_range(begin, end) destructs exactly the elements at the indices
\* begin .. end, each once, decreases size by end - begin + 1 and leaves the
\* remaining elements in their original relative order.
C25_EraseRange ==
    [][ \A begin \in 0 .. max_elements, end \in 0 .. max_elements :
          (\E survives \in BOOLEAN : EraseRange(begin, end, survives)) =>
              /\ vec_status' = "ok"
              /\ dropped' = SubSeq(Elements(vector, slots), begin + 1, end + 1)
              /\ vector'.size = vector.size - (end - begin + 1)
              /\ Elements(vector', slots')
                    = SubSeq(Elements(vector, slots), 1, begin)
                         \o SubSeq(Elements(vector, slots), end + 2, vector.size)
      ]_vars

\* C26: erase: for every i < size, erase(i) removes exactly the element at index
\* i (destructing it once), decreases size by one, keeps capacity, and leaves
\* all other elements in their original relative order, those after i shifted
\* left by one.
C26_Erase ==
    [][ \A index \in 0 .. max_elements :
          Erase(index) =>
              /\ vec_status' = "ok"
              /\ dropped' = <<load(slots, index)>>
              /\ vector'.size = vector.size - 1
              /\ vector'.capacity = vector.capacity
              /\ Elements(vector', slots')
                    = SubSeq(Elements(vector, slots), 1, index)
                         \o SubSeq(Elements(vector, slots), index + 2, vector.size)
      ]_vars

\* an erase took an element out of the middle of at least three
C26_Witness ==
    /\ DOMAIN vector # {}
    /\ vec_status = "ok"
    /\ vec_last.call.op = "erase"
    /\ vec_last.call.a > 0
    /\ vec_last.call.a + 1 < vector.size
    /\ \A i \in 0 .. (vector.size - 1) : \A j \in 0 .. (vector.size - 1) :
          i # j => load(slots, i) # load(slots, j)

(***************************************************************************)
(* Part 5: RingBuffer (container/src/ringbuffer.rs)                        *)
(*                                                                         *)
(* items is a Vec of `capacity' elements: indexing it at or behind         *)
(* capacity panics in every build.                                         *)
(***************************************************************************)
\* the largest capacity handed to RingBuffer::new
MaxRingCapacity == 3
\* calls made on one ring buffer in one run
MaxRingOps == 8

\* what an operation hands back to the action that called it
ROutcome(r, st, res) == [ring |-> r, status |-> st, result |-> res]

\* RingBuffer::new; T::default() is the zeroed item
ring_new(capacity) ==
    [empty |-> TRUE, write_idx |-> 0, read_idx |-> 0, capacity |-> capacity,
     items |-> [k \in 1 .. capacity |-> 0]]

\* RingBuffer::write
write(item) ==
    LET read_idx == IF ring.write_idx = ring.read_idx /\ ~ring.empty
                    THEN ring.read_idx + 1 ELSE ring.read_idx
    IN  ROutcome([ring EXCEPT !.read_idx = read_idx,
                              !.empty = FALSE,
                              !.items = [ring.items EXCEPT ![ring.write_idx + 1] = item],
                              !.write_idx = (ring.write_idx + 1) % ring.capacity],
                 "ok", None)

\* RingBuffer::write_clone
write_clone(item) ==
    LET w == write(item).ring
    IN  ROutcome([w EXCEPT !.read_idx = IF w.write_idx = w.read_idx THEN w.read_idx + 1
                                        ELSE w.read_idx],
                 "ok", None)

\* RingBuffer::read
read ==
    IF ring.empty THEN ROutcome(ring, "ok", None)
    ELSE IF ~(ring.read_idx < Len(ring.items)) THEN ROutcome(ring, "panic", None)
    ELSE ROutcome([ring EXCEPT !.read_idx = (ring.read_idx + 1) % ring.capacity,
                               !.empty = ((ring.read_idx + 1) % ring.capacity = ring.write_idx)],
                  "ok", ring.items[ring.read_idx + 1])

\* RingBuffer::peek and RingBuffer::peek_mut
peek ==
    IF ring.empty THEN ROutcome(ring, "ok", None)
    ELSE IF ~(ring.read_idx < Len(ring.items)) THEN ROutcome(ring, "panic", None)
    ELSE ROutcome(ring, "ok", ring.items[ring.read_idx + 1])

\* RingBuffer::reset
ring_reset ==
    ROutcome([ring EXCEPT !.write_idx = 0, !.read_idx = 0, !.empty = TRUE], "ok", None)

\* RingBuffer::size of the buffer r; the subtractions are on usize, None stands
\* for the result of one that goes below zero
ring_size(r) ==
    IF r.empty THEN 0
    ELSE IF r.read_idx < r.write_idx THEN r.write_idx - r.read_idx
    ELSE IF r.capacity - r.read_idx - r.write_idx < 0 THEN None
    ELSE r.capacity - r.read_idx - r.write_idx

(***************************************************************************)
(* The ring buffer under an arbitrary caller.  The items written are       *)
(* numbered by the call that writes them.  unread is what the caller       *)
(* expects to read: the items written and not read, the oldest dropped     *)
(* by a write that finds `capacity' of them.                               *)
(***************************************************************************)
RingCalled(r, op, item) ==
    /\ ring_status = "ok"
    /\ ring_ops < MaxRingOps
    /\ ring_ops' = ring_ops + 1
    /\ ring' = r.ring
    /\ ring_status' = r.status
    /\ ring_last' = [op |-> op, item |-> item, result |-> r.result,
                     cloned |-> IF op = "reset" THEN FALSE
                                ELSE ring_last.cloned \/ op = "write_clone"]
    /\ UNCHANGED <<debug_build, hmVars, allocVars, realmVars, vecVars>>

RingInit ==
    /\ debug_build \in BOOLEAN
    /\ NoHandleMap
    /\ NoAllocator
    /\ NoRealm
    /\ NoVector
    /\ \E capacity \in 1 .. MaxRingCapacity : ring = ring_new(capacity)
    /\ ring_status = "ok"
    /\ ring_last = [op |-> "new", item |-> 0, result |-> None, cloned |-> FALSE]
    /\ ring_ops = 0
    /\ unread = <<>>

Written(item) ==
    IF Len(unread) >= ring.capacity THEN Append(Tail(unread), item) ELSE Append(unread, item)

Write ==
    /\ RingCalled(write(ring_ops + 1), "write", ring_ops + 1)
    /\ unread' = Written(ring_ops + 1)

WriteClone ==
    /\ RingCalled(write_clone(ring_ops + 1), "write_clone", ring_ops + 1)
    /\ unread' = Written(ring_ops + 1)

Read ==
    /\ RingCalled(read, "read", 0)
    /\ unread' = IF unread = <<>> THEN unread ELSE Tail(unread)

Peek ==
    /\ RingCalled(peek, "peek", 0)
    /\ UNCHANGED unread

RingReset ==
    /\ RingCalled(ring_reset, "reset", 0)
    /\ unread' = <<>>

RingNext ==
    \/ Write
    \/ WriteClone
    \/ Read
    \/ Peek
    \/ RingReset

SpecRingBuffer == RingInit /\ [][RingNext]_vars

(***************************************************************************)
(* Properties of the RingBuffer                                            *)
(***************************************************************************)
\* C27: ring buffer FIFO with overwrite: after any sequence of write and read on
\* a RingBuffer of capacity C, a read returns the oldest of the written items
\* that are unread and among the last C written, none when there is no such
\* item; so a write on a full buffer discards exactly the oldest unread item and
\* keeps the other C - 1.
C27_RingFifo ==
    [][ (Read /\ ~ring_last.cloned) =>
          /\ ring_status' = "ok"
          /\ ring_last'.result = IF unread = <<>> THEN None ELSE Head(unread)
      ]_vars

\* C28: ring buffer read/peek: read and peek on an empty buffer (freshly
\* constructed, fully drained, or after reset) return none and leave the buffer
\* unchanged; peek on a non-empty buffer returns the item the next read will
\* return and changes neither emptiness nor size().
C28_ReadPeek ==
    [][ /\ (Read /\ ring.empty) =>
              (ring_status' = "ok" /\ ring_last'.result = None /\ ring' = ring)
        /\ (Peek /\ ring.empty) =>
              (ring_status' = "ok" /\ ring_last'.result = None /\ ring' = ring)
        /\ (Peek /\ ~ring.empty) =>
              /\ ring_status' = "ok"
              /\ ring_last'.result # None
              /\ ring_last'.result = read.result
              /\ ring'.empty = ring.empty
              /\ ring_size(ring') = ring_size(ring)
      ]_vars

(***************************************************************************)
(* Properties of reset and get_allocation_size                             *)
(***************************************************************************)
\* the storage a freshly constructed allocator of the same kind and size has
FreshStorage ==
    CASE kind = "linear" -> linear_new(args[1])
      [] kind = "stack" -> stack_new(args[1])
      [] kind = "double_ended" -> de_new(args[1])

\* C29: reset equals fresh: for the Linear, Stack and Double-Ended allocators,
\* reset from any reachable state restores the cursor(s) to the extremes: the
\* allocator is left in the state of a freshly constructed one of the same size,
\* on which the addresses every later request returns depend, front and back.
C29_ResetEqualsFresh ==
    [][ (LinearReset \/ StackReset \/ DEReset) =>
          /\ alloc_status' = "ok"
          /\ storage' = FreshStorage
      ]_vars

\* a linear allocator that was reset hands out the first address again
C29_Witness ==
    /\ kind = "linear"
    /\ alloc_status = "ok"
    /\ alloc_ops >= 3
    /\ last.op = "alloc_raw"
    /\ last.ptr # NULL
    /\ Len(blocks) = 1
    /\ blocks[1].before = storage.mem_begin

\* get_allocation_size of the allocator at hand
get_allocation_size(ptr) ==
    CASE kind = "linear" -> linear_get_allocation_size(ptr)
      [] kind = "stack" -> stack_get_allocation_size(ptr)
      [] kind = "double_ended" -> de_get_allocation_size(ptr)
      [] kind = "pool" -> pool_get_allocation_size(ptr)

\* C30: for every live block returned by an allocation of size s, from the front
\* or from the back, get_allocation_size(block) returns s, also after any number
\* of later allocations on the same allocator.
C30_AllocationSize ==
    (kind # "none" /\ realm = "none" /\ alloc_status = "ok") =>
        \A i \in 1 .. Len(LiveBlocks) :
            get_allocation_size(LiveBlocks[i].ptr) = LiveBlocks[i].size

\* a front and a back block of different sizes are live, and an allocation made
\* after both is live too
C30_Witness ==
    /\ kind = "double_ended"
    /\ alloc_status = "ok"
    /\ Len(blocks) >= 2
    /\ Len(back_blocks) >= 1
    /\ blocks[1].size # back_blocks[1].size

(***************************************************************************)
(* Failed allocations and the back side of the double-ended allocator      *)
(***************************************************************************)
\* C31: failed allocation is side-effect free: when alloc_raw (linear, stack,
\* double-ended front) or alloc_raw_back returns none, the allocator's cursors
\* are exactly as before the call (so every request that would have succeeded
\* before the failed call still succeeds after it, and the cursor never leaves
\* [base, end]).
C31_FailedAllocation ==
    [][ \A q \in Requests :
          ( /\ \/ LinearAllocRaw(q[1], q[2], q[3])
               \/ StackAlloc(q[1], q[2], q[3])
               \/ DEAllocRaw(q[1], q[2], q[3])
               \/ DEAllocRawBack(q[1], q[2], q[3])
            /\ alloc_status' = "ok"
            /\ last'.ptr = NULL ) =>
              storage' = storage
      ]_vars

\* C32: back-side LIFO round trip: dealloc_raw_back of the most recently
\* allocated back block restores back_cursor to the value it had immediately
\* before that block's alloc_raw_back, at every nesting depth (also when older
\* back blocks are still live): the offset from end stored as u32 in the header
\* round-trips to the same cursor.
C32_BackRoundTrip ==
    [][ (kind = "double_ended" /\ DEDeallocRawBack) =>
          \A b \in {back_blocks[Len(back_blocks)]} :
            /\ alloc_status' = "ok"
            /\ storage'.current_end_ptr = b.before
      ]_vars

(***************************************************************************)
(* HandleMap::clear                                                        *)
(***************************************************************************)
\* C33: clear() resets the map: from any reachable state, including an empty
\* map, clear() completes without failure and leaves size() == 0 with all
\* max_size sparse slots on the free list (so that max_size subsequent inserts
\* succeed).
C33_ClearResets ==
    [][ Clear =>
          /\ status' = "ok"
          /\ size' = 0
          /\ FreeSlots' = Slots
      ]_vars

(***************************************************************************)
(* PoolAllocator::reset and PoolAllocator::new                             *)
(***************************************************************************)
\* what the next n calls of alloc return when nothing is given back in between:
\* the user pointers in order, closed by NULL for none or by -1 for a call that
\* reads a list word outside the committed pages
RECURSIVE AllocRun(_, _, _)
AllocRun(m, list, n) ==
    LET g == get_block(m, storage.mem_begin,
                       committed_end(storage.mem_begin, storage.mem_end - storage.mem_begin),
                       list)
    IN
    IF n = 0 THEN <<>>
    ELSE IF g.fault THEN <<-1>>
    ELSE IF g.block = NULL THEN <<NULL>>
    ELSE <<g.block + pool_ALLOCATION_META_SIZE>> \o AllocRun(m, g.list, n - 1)

\* the allocator PoolAllocator::new returns for the arguments of this run
FreshPool == pool_new(args[1], args[2], args[3], args[4])

\* C34: pool reset equals fresh: after PoolAllocator.reset() from any reachable
\* state (whatever blocks were allocated, written to, or freed), the allocator
\* behaves like a freshly constructed one: the same number of alloc calls
\* succeed and they return the same addresses in the same order, then none.
C34_PoolResetEqualsFresh ==
    [][ PoolReset =>
          /\ alloc_status' = "ok"
          /\ storage' = FreshPool.storage
          /\ \A n \in {Cardinality(DOMAIN words) + 2} :
                AllocRun(words', storage'.free_list, n)
                    = AllocRun(FreshPool.words, FreshPool.storage.free_list, n)
      ]_vars

\* C35: pool block size: PoolAllocator::new computes block_size as the smallest
\* multiple of max_element_alignment that is >= max_element_size +
\* sizeof(header), for every max_element_size and every power-of-two
\* max_element_alignment.
C35_PoolBlockSize ==
    kind = "pool" =>
        LET needed == args[1] + pool_ALLOCATION_META_SIZE
        IN  /\ storage.min_block_size % args[3] = 0
            /\ storage.min_block_size >= needed
            /\ storage.min_block_size - args[3] < needed

(***************************************************************************)
(* Vector: growth at the end of the reservation, and resize                *)
(***************************************************************************)
\* C36: vector growth exhaustion: a grow request is clamped to the uncommitted
\* remainder of the reservation, and when no uncommitted reservation remains
\* (committed_end == reserved_end) a push at size == capacity fails fatally
\* instead of writing an element at index >= capacity.
C36_GrowthExhaustion ==
    [][ \A survives \in BOOLEAN :
          ( /\ Push(survives)
            /\ vector.size = vector.capacity
            /\ vector.internal_array_end = vector.virtual_mem_end ) =>
              /\ vec_status' # "ok"
              /\ slots' = slots
              /\ vector'.size = vector.size
      ]_vars

\* what a resize to new_size that fills with item has to leave: the size asked
\* for, the elements kept, the new tail equal to item, and the truncated tail
\* destructed once each, last element first (the order of the pops)
Resized(new_size, item) ==
    LET old == Elements(vector, slots)
        kept == IF new_size < vector.size THEN new_size ELSE vector.size
    IN  /\ vec_status' = "ok"
        /\ vector'.size = new_size
        /\ SubSeq(Elements(vector', slots'), 1, kept) = SubSeq(old, 1, kept)
        /\ \A k \in (vector.size + 1) .. new_size : Elements(vector', slots')[k] = item
        /\ dropped' = [k \in 1 .. (vector.size - kept) |-> old[vector.size + 1 - k]]

\* C37: vector resize: after resize(n) (n within the maximum) size == n, the
\* elements at indices [0, min(old_size, n)) are unchanged, the elements at
\* [old_size, n) are default-constructed, and when n < old_size each element at
\* [n, old_size) is destructed exactly once; resize_with_template behaves the
\* same with clones of the template.
C37_Resize ==
    [][ \A new_size \in 0 .. max_elements :
          /\ (\E survives \in BOOLEAN : Resize(new_size, survives)) =>
                Resized(new_size, DefaultItem)
          /\ (\E survives \in BOOLEAN : ResizeWithTemplate(new_size, survives)) =>
                Resized(new_size, vec_ops + 1)
      ]_vars

(***************************************************************************)
(* RingBuffer: size, the cursors, and write_clone                          *)
(***************************************************************************)
\* the number of items between the cursors: 0 when empty, capacity when full,
\* (write_idx - read_idx + capacity) mod capacity otherwise
Occupancy(r) ==
    IF r.empty THEN 0
    ELSE IF r.write_idx = r.read_idx THEN r.capacity
    ELSE (r.write_idx - r.read_idx + r.capacity) % r.capacity

\* C38: ring buffer size(): in every reachable state size() returns the number
\* of written-and-unread items, a value in [0, capacity]: 0 when empty, capacity
\* when full, and (write_idx - read_idx + capacity) mod capacity otherwise, also
\* after the indices have wrapped around.
C38_RingSize ==
    (DOMAIN ring # {} /\ ring_status = "ok") =>
        /\ ring_size(ring) = Len(unread)
        /\ ring_size(ring) = Occupancy(ring)

\* C39: ring buffer index bounds: after any sequence of write, write_clone, read,
\* peek and reset on a buffer of capacity C >= 1, read_idx < C and write_idx < C
\* (so read() and peek() never index outside the item array), and the empty flag
\* is false whenever read_idx != write_idx.
C39_RingIndexBounds ==
    DOMAIN ring # {} =>
        /\ ring.read_idx < ring.capacity
        /\ ring.write_idx < ring.capacity
        /\ ring.read_idx # ring.write_idx => ~ring.empty

\* C40: write_clone(&x) is equivalent to write(x): from every reachable state
\* both leave the buffer in the same state (same read_idx, write_idx, empty flag
\* and stored items), so a buffer filled through write_clone holds up to
\* capacity unread items exactly like one filled through write.
C40_WriteCloneEquivalence ==
    [][ WriteClone =>
          /\ ring_status' = write(ring_ops + 1).status
          /\ ring' = write(ring_ops + 1).ring
      ]_vars

====
